---------------------------- MODULE Spec2Model ----------------------------
(***************************************************************************)
(* The constant-product pool of src/dex.py (class DEX) and the arbitrage   *)
(* resolver that trades it against an external reference price.            *)
(*                                                                         *)
(* Numbers.  The program computes in floating point; the model computes    *)
(* in exact rational arithmetic, a rational being a pair <<n, d>> in       *)
(* lowest terms with d > 0.  A square root is taken only of a rational     *)
(* square, so every value of the model is the exact real value of the      *)
(* program's expression, without rounding.                                 *)
(*                                                                         *)
(* Units.  reserve_x and ETH amounts are counted in units of the initial   *)
(* POOL_RESERVES_ETH, reserve_y and every USD amount in units of the       *)
(* initial POOL_RESERVES_USD, prices in units of ETH_PRICE.  In these      *)
(* units DEX.__init__ leaves reserve_x = 1, reserve_y = 1, price() = 1,    *)
(* and every formula of dex.py reads as it is written.                     *)
(***************************************************************************)
EXTENDS Integers, Sequences, FiniteSets, TLC

VARIABLES dex, call, example

vars == <<dex, call, example>>

-----------------------------------------------------------------------------
(* Exact rational arithmetic                                               *)

RECURSIVE GCD(_, _)
GCD(a, b) == IF b = 0 THEN a ELSE GCD(b, a % b)

Abs(n) == IF n < 0 THEN -n ELSE n

Sign(n) == IF n < 0 THEN -1 ELSE IF n = 0 THEN 0 ELSE 1

\* n / d in lowest terms, d # 0
R(n, d) ==
    LET g == GCD(Abs(n), Abs(d))
    IN  <<Sign(d) * (Abs(n) \div g) * Sign(n), Abs(d) \div g>>

Zero == <<0, 1>>

One == <<1, 1>>

RNeg(a) == <<-a[1], a[2]>>

RAdd(a, b) ==
    LET g == GCD(a[2], b[2])
        l == (a[2] \div g) * b[2]
    IN  R(a[1] * (l \div a[2]) + b[1] * (l \div b[2]), l)

RSub(a, b) == RAdd(a, RNeg(b))

RMul(a, b) ==
    LET g1 == GCD(Abs(a[1]), b[2])
        g2 == GCD(Abs(b[1]), a[2])
    IN  <<(a[1] \div g1) * (b[1] \div g2), (a[2] \div g2) * (b[2] \div g1)>>

RInv(a) == <<Sign(a[1]) * a[2], Abs(a[1])>>

RDiv(a, b) == RMul(a, RInv(b))

RSign(a) == Sign(a[1])

RLt(a, b) == RSign(RSub(a, b)) < 0

RLe(a, b) == RSign(RSub(a, b)) <= 0

RAbs(a) == <<Abs(a[1]), a[2]>>

RMin(a, b) == IF a = b THEN a ELSE IF RLt(b, a) THEN b ELSE a

RMax(a, b) == IF a = b THEN a ELSE IF RLt(a, b) THEN b ELSE a

\* the largest k in lo..hi with k * k <= n (lo * lo <= n)
RECURSIVE ISqrtIn(_, _, _)
ISqrtIn(n, lo, hi) ==
    IF lo >= hi THEN lo
    ELSE LET mid == (lo + hi + 1) \div 2
         IN  IF mid * mid <= n THEN ISqrtIn(n, mid, hi) ELSE ISqrtIn(n, lo, mid - 1)

\* 46340 is the largest root of a 32-bit integer
ISqrt(n) == ISqrtIn(n, 0, IF n < 46340 THEN n ELSE 46340)

IsSquareInt(n) == n >= 0 /\ ISqrt(n) * ISqrt(n) = n

\* a rational in lowest terms is a square iff its numerator and denominator are
IsSquare(a) == IsSquareInt(a[1]) /\ IsSquareInt(a[2])

\* math.sqrt, on the rational squares
sqrt(a) == <<ISqrt(a[1]), ISqrt(a[2])>>

-----------------------------------------------------------------------------
(* Constants of src/dex.py                                                 *)

ETH_PRICE == 3000

POOL_LIQUIDITY_USD == 1000000000

POOL_FEE_PPM == 500

DEFAULT_BASEFEE_USD == 10

\* Python's None
None == <<>>

\* a USD amount of the program, in the model's unit POOL_RESERVES_USD
Usd(n) == R(2 * n, POOL_LIQUIDITY_USD)

\* fee_factor = 1_000_000 / (1_000_000 - fee_ppm)
FeeFactor(fee_ppm) == R(1000000, 1000000 - fee_ppm)

-----------------------------------------------------------------------------
(* src/v3_liquidity_math.py.  Ticks: the program's tick is a step of       *)
(* 1.0001 in price, whose powers and square roots have no exact            *)
(* representation; the model's tick is a step of TickBase = 4 in price     *)
(* (2 in square-root price), so that to_price, its square root,            *)
(* to_sqrt_price and to_tick are all computed exactly, each by the         *)
(* program's formula.  Prices are in units of ETH_PRICE as everywhere in   *)
(* the model, so the tick of ETH_PRICE is 0.                               *)

TickBase == 4

RECURSIVE Power(_, _)
Power(q, e) == IF e = 0 THEN 1 ELSE q * Power(q, e - 1)

\* q ** e for an integer q and any integer e
RPower(q, e) == IF e >= 0 THEN <<Power(q, e), 1>> ELSE <<1, Power(q, -e)>>

\* the largest k with d * 2^k <= n, for n >= d > 0
RECURSIVE FloorLog2(_, _)
FloorLog2(n, d) == IF n \div 2 >= d THEN 1 + FloorLog2(n \div 2, d) ELSE 0

\* the smallest k with n * 2^k >= d, for n, d > 0
RECURSIVE CeilLog2(_, _)
CeilLog2(d, n) == IF n >= d THEN 0 ELSE 1 + CeilLog2((d + 1) \div 2, n)

\* floor(log(q, 2)) of a rational q > 0
Log2(q) == IF q[1] >= q[2] THEN FloorLog2(q[1], q[2]) ELSE -CeilLog2(q[2], q[1])

\* log(price, TickBase) is not half-way between two ticks, where round() would
\* depend on the rounding of the logarithm
TickExact(price) ==
    /\ price[1] > 0
    /\ ~(Log2(price) % 2 = 1 /\ price = RPower(2, Log2(price)))

\* to_tick(price) = int(round(log(price, TickBase))): log(price, 4) lies in
\* [e/2, (e+1)/2) for e = floor(log(price, 2))
to_tick(price) == (Log2(price) + 1) \div 2

\* def to_price(tick): TickBase ** tick
to_price(tick) == RPower(TickBase, tick)

\* def to_sqrt_price(tick): TickBase ** (tick // 2)
to_sqrt_price(tick) == RPower(TickBase, tick \div 2)

tick_to_range_low(tick, tick_spacing) == (tick \div tick_spacing) * tick_spacing

tick_to_range_high(tick, tick_spacing) == tick_to_range_low(tick, tick_spacing) + tick_spacing

get_liquidity_0(x, sa, sb) == RDiv(RMul(RMul(x, sa), sb), RSub(sb, sa))

get_liquidity_1(y, sa, sb) == RDiv(y, RSub(sb, sa))

get_liquidity(x, y, sp, sa, sb) ==
    IF RLe(sp, sa) THEN get_liquidity_0(x, sa, sb)
    ELSE IF RLt(sp, sb)
         THEN RMin(get_liquidity_0(x, sp, sb), get_liquidity_1(y, sa, sp))
         ELSE get_liquidity_1(y, sa, sb)

calculate_x(L, sp, sa, sb) ==
    LET clamped == RMax(RMin(sp, sb), sa)
    IN  RDiv(RMul(L, RSub(sb, clamped)), RMul(clamped, sb))

calculate_y(L, sp, sa, sb) ==
    LET clamped == RMax(RMin(sp, sb), sa)
    IN  RMul(L, RSub(clamped, sa))

\* compute_amounts: [x_pos, y_pos]; the arithmetic is exact, so that the value of the
\* amounts is liquidity_usd and assert_lt passes
compute_amounts(liquidity_usd, sp, sa, sb) ==
    LET p == RMul(sp, sp)
        x_unit == RDiv(RSub(sb, sp), RMul(sp, sb))
        y_unit == RSub(sp, sa)
        v_wallet == liquidity_usd
        v_unit == RAdd(RMul(x_unit, p), y_unit)
        n_units == RDiv(v_wallet, v_unit)
    IN  [x_pos |-> RMul(n_units, x_unit), y_pos |-> RMul(n_units, y_unit)]

-----------------------------------------------------------------------------
(* src/dex.py: class DEX.  A pool is a record of the object's fields; an   *)
(* operation is an operator from the pool (and its arguments) to the pool  *)
(* it leaves, with the value it returns where the properties read it.     *)

\* DEX.__init__(pool_liquidity_usd): the reserves are computed from the module's
\* POOL_LIQUIDITY_USD; the parameter is not read
DEX(pool_liquidity_usd) ==
    LET POOL_RESERVES_USD == POOL_LIQUIDITY_USD \div 2
    IN
    [ fee_ppm |-> POOL_FEE_PPM,
      fee_factor |-> FeeFactor(POOL_FEE_PPM),
      basefee_usd |-> Usd(DEFAULT_BASEFEE_USD),
      tick_spacing |-> 10,
      reserve_x |-> RDiv(Usd(POOL_RESERVES_USD), R(ETH_PRICE, ETH_PRICE)),
      reserve_y |-> Usd(POOL_RESERVES_USD),
      pos_liquidity |-> Zero,
      pos_liquidity_share |-> Zero,
      pos_tick_low |-> 0,
      pos_tick_high |-> 0,
      pos_fees_usd |-> Zero,
      pos_fees_eth |-> Zero,
      volume |-> Zero,
      lp_fees |-> Zero,
      lvr |-> Zero,
      sbp_profits |-> Zero,
      basefees |-> Zero,
      num_tx |-> 0,
      preset_target_price |-> None ]

set_fee_bps(d, fee_bps) ==
    [d EXCEPT !.fee_ppm = fee_bps * 100,
              !.fee_factor = FeeFactor(fee_bps * 100)]

set_basefee_usd(d, basefee_usd) == [d EXCEPT !.basefee_usd = basefee_usd]

price(d) == RDiv(d.reserve_y, d.reserve_x)

liquidity(d) == sqrt(RMul(d.reserve_x, d.reserve_y))

\* add_position: the pool it leaves, and None where it returns or "AssertionError"
\* where its assertion fails; the assertion is the last statement, so the fields are
\* assigned in both cases
add_position(d, liquidity_usd, tick_low, tick_high) ==
    LET price_low == to_price(tick_low)
        price_high == to_price(tick_high)
        sp == sqrt(price(d))
        sa == sqrt(price_low)
        sb == sqrt(price_high)
        amounts == compute_amounts(liquidity_usd, sp, sa, sb)
        pos_liquidity == get_liquidity(amounts.x_pos, amounts.y_pos, sp, sa, sb)
        pos_liquidity_share == RDiv(pos_liquidity, liquidity(d))
    IN  [dex |-> [d EXCEPT !.pos_tick_low = tick_low,
                           !.pos_tick_high = tick_high,
                           !.pos_liquidity = pos_liquidity,
                           !.pos_liquidity_share = pos_liquidity_share],
         ret |-> IF RLt(pos_liquidity_share, One) THEN None ELSE "AssertionError"]

get_position_assets(d) ==
    LET sp == sqrt(price(d))
        sa == to_sqrt_price(d.pos_tick_low)
        sb == to_sqrt_price(d.pos_tick_high)
    IN  [amount_eth |-> calculate_x(d.pos_liquidity, sp, sa, sb),
         amount_usd |-> calculate_y(d.pos_liquidity, sp, sa, sb)]

\* remove_position with the assets of the position taken out of the reserves
remove_position_withdrawing(d, cex_price) ==
    LET assets == get_position_assets(d)
        liquidity_usd == RAdd(assets.amount_usd, RMul(assets.amount_eth, cex_price))
        fees_usd == RAdd(d.pos_fees_usd, RMul(d.pos_fees_eth, cex_price))
    IN  [dex |-> [d EXCEPT !.pos_fees_usd = Zero,
                           !.pos_fees_eth = Zero,
                           !.pos_liquidity = Zero,
                           !.pos_liquidity_share = Zero,
                           !.reserve_x = RSub(@, assets.amount_eth),
                           !.reserve_y = RSub(@, assets.amount_usd)],
         ret |-> RAdd(liquidity_usd, fees_usd)]

\* remove_position: the pool it leaves and the value it returns
remove_position(d, cex_price) ==
    LET assets == get_position_assets(d)
        liquidity_usd == RAdd(assets.amount_usd, RMul(assets.amount_eth, cex_price))
        fees_usd == RAdd(d.pos_fees_usd, RMul(d.pos_fees_eth, cex_price))
    IN  [dex |-> [d EXCEPT !.pos_fees_usd = Zero,
                           !.pos_fees_eth = Zero,
                           !.pos_liquidity = Zero,
                           !.pos_liquidity_share = Zero],
         ret |-> RAdd(liquidity_usd, fees_usd)]

is_in_range(d, margin) ==
    LET tick == to_tick(price(d))
    IN  d.pos_tick_low - margin <= tick /\ d.pos_tick_high + margin > tick

is_below_range(d, margin) ==
    LET tick == to_tick(price(d))
    IN  d.pos_tick_low - margin > tick

is_above_range(d, margin) ==
    LET tick == to_tick(price(d))
    IN  d.pos_tick_high + margin <= tick

\* the margin of rebalance without the clamp at 0
rebalance_margin_unclamped(width_in_ticks, tick_spacing) ==
    (width_in_ticks - tick_spacing) \div 2

\* rebalance, lines 116-118
rebalance_margin(width_in_ticks, tick_spacing) ==
    LET margin == (width_in_ticks - tick_spacing) \div 2
    IN  IF margin < 0 THEN 0 ELSE margin

\* rebalance, lines 113-120: the range [low, high]
rebalance_range(d, width_in_ticks) ==
    LET tick == to_tick(price(d))
        range_low == tick_to_range_low(tick, d.tick_spacing)
        range_high == tick_to_range_high(tick, d.tick_spacing)
        margin == rebalance_margin(width_in_ticks, d.tick_spacing)
        low == range_low - margin
        high == range_high + margin
    IN  [low |-> low, high |-> high]

\* rebalance: the pool it leaves, the value it withdrew (usd), and ret as add_position
rebalance(d, cex_price, width_in_ticks, additional_usd) ==
    LET range == rebalance_range(d, width_in_ticks)
        removed == remove_position(d, cex_price)
        added == add_position(removed.dex, RAdd(removed.ret, additional_usd),
                              range.low, range.high)
    IN  [dex |-> added.dex, usd |-> removed.ret, ret |-> added.ret]

\* rebalance_above, lines 135-140: the range [low, high]
rebalance_above_range(d, width_in_ticks) ==
    LET tick == to_tick(price(d))
        range_low == tick_to_range_low(tick, d.tick_spacing)
        range_high == tick_to_range_high(tick, d.tick_spacing)
        margin == width_in_ticks - d.tick_spacing
        low == range_low
        high == range_high + margin
    IN  [low |-> low, high |-> high]

rebalance_above(d, cex_price, width_in_ticks, additional_usd) ==
    LET range == rebalance_above_range(d, width_in_ticks)
        removed == remove_position(d, cex_price)
        added == add_position(removed.dex, RAdd(removed.ret, additional_usd),
                              range.low, range.high)
    IN  [dex |-> added.dex, usd |-> removed.ret, ret |-> added.ret]

\* get_fee_share, line 160
swap_total_ticks(tick_start, tick_end) == tick_end - tick_start + 1

\* get_fee_share, lines 156-176: the ticks of the swap and those of them in the range
get_fee_share_ticks(d, swap_price_start, swap_price_end) ==
    LET swap_price_low ==
            IF RLt(swap_price_end, swap_price_start) THEN swap_price_end
            ELSE swap_price_start
        tick_start == to_tick(swap_price_low)
        tick_end == to_tick(swap_price_end)
        total_ticks == swap_total_ticks(tick_start, tick_end)
        ticks_in_range ==
            IF tick_start < d.pos_tick_low
            THEN IF tick_end < d.pos_tick_low THEN 0
                 ELSE IF tick_end < d.pos_tick_high
                      THEN tick_end - d.pos_tick_low + 1
                      ELSE d.pos_tick_high - d.pos_tick_low + 1
            ELSE IF tick_start < d.pos_tick_high
                 THEN IF tick_end < d.pos_tick_high THEN total_ticks
                      ELSE d.pos_tick_high - tick_start
                 ELSE 0
    IN  [tick_start |-> tick_start, tick_end |-> tick_end,
         total_ticks |-> total_ticks, ticks_in_range |-> ticks_in_range]

\* get_fee_share, lines 178 and 183: the exception it raises, "returned" where it
\* raises none
get_fee_share_raises(d, swap_price_start, swap_price_end) ==
    LET ticks == get_fee_share_ticks(d, swap_price_start, swap_price_end)
    IN  IF ticks.total_ticks = 0 THEN "ZeroDivisionError"
        ELSE IF RLt(One, R(ticks.ticks_in_range, ticks.total_ticks))
             THEN "AssertionError"
             ELSE "returned"

\* get_fee_share where it returns
get_fee_share(d, swap_price_start, swap_price_end) ==
    LET ticks == get_fee_share_ticks(d, swap_price_start, swap_price_end)
        proportion_in_range == R(ticks.ticks_in_range, ticks.total_ticks)
    IN  RMul(proportion_in_range, d.pos_liquidity_share)

get_amounts_to_target_price(d, target_price) ==
    LET target == IF d.preset_target_price # None THEN d.preset_target_price
                  ELSE target_price
        sqrt_target_price == sqrt(target)
        L == liquidity(d)
    IN  [delta_x |-> RSub(RDiv(L, sqrt_target_price), d.reserve_x),
         delta_y |-> RSub(RMul(L, sqrt_target_price), d.reserve_y)]

\* swap_x_to_y with the whole input, fee included, added to the reserve
swap_x_to_y_compounding(d, amount_in_x) ==
    LET amount_in_x_without_fee == RDiv(amount_in_x, d.fee_factor)
        p == price(d)
        reserve_x == RAdd(d.reserve_x, amount_in_x)
        y_out == RDiv(RMul(amount_in_x_without_fee, d.reserve_y), reserve_x)
    IN  [d EXCEPT !.lp_fees = RAdd(@, RMul(RSub(amount_in_x, amount_in_x_without_fee), p)),
                  !.reserve_x = reserve_x,
                  !.reserve_y = RSub(@, y_out),
                  !.volume = RAdd(@, RMul(amount_in_x, p)),
                  !.num_tx = @ + 1,
                  !.basefees = RAdd(@, d.basefee_usd)]

\* swap_x_to_y with the fee valued at the price after the swap
swap_x_to_y_late_price(d, amount_in_x) ==
    LET amount_in_x_without_fee == RDiv(amount_in_x, d.fee_factor)
        reserve_x == RAdd(d.reserve_x, amount_in_x_without_fee)
        y_out == RDiv(RMul(amount_in_x_without_fee, d.reserve_y), reserve_x)
        p == RDiv(RSub(d.reserve_y, y_out), reserve_x)
    IN  [d EXCEPT !.lp_fees = RAdd(@, RMul(RSub(amount_in_x, amount_in_x_without_fee), p)),
                  !.reserve_x = reserve_x,
                  !.reserve_y = RSub(@, y_out),
                  !.volume = RAdd(@, RMul(amount_in_x, p)),
                  !.num_tx = @ + 1,
                  !.basefees = RAdd(@, d.basefee_usd)]

\* swap_x_to_y with the output computed from the reserve before the input is added
swap_x_to_y_stale(d, amount_in_x) ==
    LET amount_in_x_without_fee == RDiv(amount_in_x, d.fee_factor)
        p == price(d)
        y_out == RDiv(RMul(amount_in_x_without_fee, d.reserve_y), d.reserve_x)
    IN  [d EXCEPT !.lp_fees = RAdd(@, RMul(RSub(amount_in_x, amount_in_x_without_fee), p)),
                  !.reserve_x = RAdd(@, amount_in_x_without_fee),
                  !.reserve_y = RSub(@, y_out),
                  !.volume = RAdd(@, RMul(amount_in_x, p)),
                  !.num_tx = @ + 1,
                  !.basefees = RAdd(@, d.basefee_usd)]

swap_x_to_y(d, amount_in_x) ==
    LET amount_in_x_without_fee == RDiv(amount_in_x, d.fee_factor)
        p == price(d)
        reserve_x == RAdd(d.reserve_x, amount_in_x_without_fee)
        y_out == RDiv(RMul(amount_in_x_without_fee, d.reserve_y), reserve_x)
    IN  [d EXCEPT !.lp_fees = RAdd(@, RMul(RSub(amount_in_x, amount_in_x_without_fee), p)),
                  !.reserve_x = reserve_x,
                  !.reserve_y = RSub(@, y_out),
                  !.volume = RAdd(@, RMul(amount_in_x, p)),
                  !.num_tx = @ + 1,
                  !.basefees = RAdd(@, d.basefee_usd)]

\* swap_x_to_y, line 230: the value it returns
swap_x_to_y_out(d, amount_in_x) ==
    LET amount_in_x_without_fee == RDiv(amount_in_x, d.fee_factor)
        reserve_x == RAdd(d.reserve_x, amount_in_x_without_fee)
    IN  RDiv(RMul(amount_in_x_without_fee, d.reserve_y), reserve_x)

\* swap_y_to_x with the whole input, fee included, added to the reserve
swap_y_to_x_compounding(d, amount_in_y) ==
    LET amount_in_y_without_fee == RDiv(amount_in_y, d.fee_factor)
        reserve_y == RAdd(d.reserve_y, amount_in_y)
        x_out == RDiv(RMul(amount_in_y_without_fee, d.reserve_x), reserve_y)
    IN  [d EXCEPT !.lp_fees = RAdd(@, RSub(amount_in_y, amount_in_y_without_fee)),
                  !.reserve_y = reserve_y,
                  !.reserve_x = RSub(@, x_out),
                  !.volume = RAdd(@, amount_in_y),
                  !.num_tx = @ + 1,
                  !.basefees = RAdd(@, d.basefee_usd)]

\* swap_y_to_x with the operands of the fee's subtraction exchanged
swap_y_to_x_refund(d, amount_in_y) ==
    LET amount_in_y_without_fee == RDiv(amount_in_y, d.fee_factor)
        reserve_y == RAdd(d.reserve_y, amount_in_y_without_fee)
        x_out == RDiv(RMul(amount_in_y_without_fee, d.reserve_x), reserve_y)
    IN  [d EXCEPT !.lp_fees = RAdd(@, RSub(amount_in_y_without_fee, amount_in_y)),
                  !.reserve_y = reserve_y,
                  !.reserve_x = RSub(@, x_out),
                  !.volume = RAdd(@, amount_in_y),
                  !.num_tx = @ + 1,
                  !.basefees = RAdd(@, d.basefee_usd)]

swap_y_to_x(d, amount_in_y) ==
    LET amount_in_y_without_fee == RDiv(amount_in_y, d.fee_factor)
        reserve_y == RAdd(d.reserve_y, amount_in_y_without_fee)
        x_out == RDiv(RMul(amount_in_y_without_fee, d.reserve_x), reserve_y)
    IN  [d EXCEPT !.lp_fees = RAdd(@, RSub(amount_in_y, amount_in_y_without_fee)),
                  !.reserve_y = reserve_y,
                  !.reserve_x = RSub(@, x_out),
                  !.volume = RAdd(@, amount_in_y),
                  !.num_tx = @ + 1,
                  !.basefees = RAdd(@, d.basefee_usd)]

\* swap_y_to_x, line 244: the value it returns
swap_y_to_x_out(d, amount_in_y) ==
    LET amount_in_y_without_fee == RDiv(amount_in_y, d.fee_factor)
        reserve_y == RAdd(d.reserve_y, amount_in_y_without_fee)
    IN  RDiv(RMul(amount_in_y_without_fee, d.reserve_x), reserve_y)

\* get_target_price without the fee: the reference price itself
get_target_price_nofee(d, cex_price) == cex_price

get_target_price(d, cex_price) ==
    LET dex_price == price(d)
    IN  IF RLt(dex_price, cex_price)
        THEN LET target_price == RDiv(cex_price, d.fee_factor)
             IN  IF RLt(target_price, dex_price) THEN None ELSE target_price
        ELSE LET target_price == RMul(cex_price, d.fee_factor)
             IN  IF RLt(dex_price, target_price) THEN None ELSE target_price

\* the LP fee with the operands of its subtractions exchanged
trade_lp_fee_negated(d, cex_price, delta_x, delta_y) ==
    IF RSign(delta_x) > 0
    THEN LET delta_x_with_fee == RMul(delta_x, d.fee_factor)
             lp_fee_eth == RSub(delta_x, delta_x_with_fee)
         IN  [lp_fee_eth |-> lp_fee_eth, lp_fee_usd |-> Zero,
              lp_fee |-> RMul(lp_fee_eth, cex_price)]
    ELSE LET delta_y_with_fee == RMul(delta_y, d.fee_factor)
             lp_fee_usd == RSub(delta_y, delta_y_with_fee)
         IN  [lp_fee_eth |-> Zero, lp_fee_usd |-> lp_fee_usd, lp_fee |-> lp_fee_usd]

\* maybe_arbitrage, lines 290-299: the LP fee of the trade, in the asset that flows in and
\* valued at the reference price
trade_lp_fee(d, cex_price, delta_x, delta_y) ==
    IF RSign(delta_x) > 0
    THEN LET delta_x_with_fee == RMul(delta_x, d.fee_factor)
             lp_fee_eth == RSub(delta_x_with_fee, delta_x)
         IN  [lp_fee_eth |-> lp_fee_eth, lp_fee_usd |-> Zero,
              lp_fee |-> RMul(lp_fee_eth, cex_price)]
    ELSE LET delta_y_with_fee == RMul(delta_y, d.fee_factor)
             lp_fee_usd == RSub(delta_y_with_fee, delta_y)
         IN  [lp_fee_eth |-> Zero, lp_fee_usd |-> lp_fee_usd, lp_fee |-> lp_fee_usd]

\* maybe_arbitrage, line 301
trade_lvr(cex_price, delta_x, delta_y) == RNeg(RAdd(RMul(delta_x, cex_price), delta_y))

\* the gate with a strict comparison, the gate left out, and the gate with its
\* comparison reversed
unprofitable_strict(sbp_profit) == RLt(sbp_profit, Zero)

unprofitable_never(sbp_profit) == FALSE

unprofitable_reversed(sbp_profit) == RLe(Zero, sbp_profit)

\* maybe_arbitrage, line 303: the second profitability gate
unprofitable(sbp_profit) == RLe(sbp_profit, Zero)

\* the trade with only reserve_x moved
apply_trade_x_only(d, delta_x, delta_y) == [d EXCEPT !.reserve_x = RAdd(@, delta_x)]

\* maybe_arbitrage, lines 317-318: the trade moves the reserves
apply_trade(d, delta_x, delta_y) ==
    [d EXCEPT !.reserve_x = RAdd(@, delta_x),
              !.reserve_y = RAdd(@, delta_y)]

\* the volume without the absolute value
trade_volume_signed(delta_y, lp_fee) == RAdd(delta_y, lp_fee)

\* maybe_arbitrage, line 330: the volume of the trade
trade_volume(delta_y, lp_fee) == RAdd(RAbs(delta_y), lp_fee)

\* the whole fee to the position, whatever its share
position_fee_whole(share, lp_fee) == lp_fee

\* maybe_arbitrage, lines 322-327: share * lp_fee_usd, share * lp_fee_eth
position_fee(share, lp_fee) == RMul(share, lp_fee)

\* the profit with the basefee added
trade_sbp_profit_plus_basefee(single_transaction_lvr, lp_fee, basefee_usd) ==
    RAdd(RSub(single_transaction_lvr, lp_fee), basefee_usd)

\* the profit without the basefee taken off
trade_sbp_profit_gross(single_transaction_lvr, lp_fee, basefee_usd) ==
    RSub(single_transaction_lvr, lp_fee)

\* maybe_arbitrage, line 302
trade_sbp_profit(single_transaction_lvr, lp_fee, basefee_usd) ==
    RSub(RSub(single_transaction_lvr, lp_fee), basefee_usd)

\* maybe_arbitrage: the pool it leaves (dex), the value it returns (ret), and the
\* values of its local variables where it computed them (None where it did not)
maybe_arbitrage(d, cex_price) ==
    LET target_price == get_target_price(d, cex_price)
        no_trade == [dex |-> d, ret |-> FALSE, target_price |-> target_price,
                     lp_fee |-> None, lvr |-> None, sbp_profit |-> None]
    IN  IF target_price = None THEN no_trade
        ELSE
        LET amounts == get_amounts_to_target_price(d, target_price)
            delta_x == amounts.delta_x
            delta_y == amounts.delta_y
            fee == trade_lp_fee(d, cex_price, delta_x, delta_y)
            lp_fee == fee.lp_fee
            single_transaction_lvr == trade_lvr(cex_price, delta_x, delta_y)
            sbp_profit == trade_sbp_profit(single_transaction_lvr, lp_fee, d.basefee_usd)
            computed == [no_trade EXCEPT !.lp_fee = lp_fee,
                                         !.lvr = single_transaction_lvr,
                                         !.sbp_profit = sbp_profit]
        IN  IF unprofitable(sbp_profit) THEN computed
            ELSE
            LET price_start == price(d)
                moved == apply_trade(d, delta_x, delta_y)
                price_end == price(moved)
                share == get_fee_share(moved, price_start, price_end)
            IN  [computed EXCEPT
                   !.ret = TRUE,
                   !.dex = [moved EXCEPT
                       !.pos_fees_usd = IF fee.lp_fee_usd # Zero
                                        THEN RAdd(@, position_fee(share, fee.lp_fee_usd))
                                        ELSE @,
                       !.pos_fees_eth = IF fee.lp_fee_usd # Zero THEN @
                                        ELSE RAdd(@, position_fee(share, fee.lp_fee_eth)),
                       !.volume = RAdd(@, trade_volume(delta_y, lp_fee)),
                       !.lp_fees = RAdd(@, lp_fee),
                       !.lvr = RAdd(@, single_transaction_lvr),
                       !.sbp_profits = RAdd(@, sbp_profit),
                       !.basefees = RAdd(@, d.basefee_usd),
                       !.num_tx = @ + 1]]

-----------------------------------------------------------------------------
(* The domain of the model's arithmetic                                    *)

\* a + b and a - b stay within the integers of the model
CanAdd(a, b) ==
    LET g == GCD(a[2], b[2])
    IN  /\ a[2] \div g <= 500000000 \div b[2]
        /\ Abs(a[1]) <= 500000000 \div (b[2] \div g)
        /\ Abs(b[1]) <= 500000000 \div (a[2] \div g)

RECURSIVE Exponent(_, _)
Exponent(n, q) == IF n > 0 /\ n % q = 0 THEN 1 + Exponent(n \div q, q) ELSE 0

IsSmooth(n) ==
    n = Power(2, Exponent(n, 2)) * Power(3, Exponent(n, 3))
          * Power(5, Exponent(n, 5)) * Power(7, Exponent(n, 7))

\* the numerator and the denominator of p are products of 2, 3, 5 and 7, as those of
\* the prices of the grid are: the powers of the fee factor 2000/1999 are not, and
\* sums with them leave the integers of the model
GridPrice(p) == p[1] > 0 /\ IsSmooth(p[1]) /\ IsSmooth(p[2])

\* maybe_arbitrage(cex_price) is modelled where it returns at its first test, and
\* otherwise where its square roots are rational, the ticks of its prices are exact and
\* its sums stay within the integers of the model (the constructor's fee factor of
\* 2000/1999 and its basefee of 10 USD on reserves of 500 000 000 USD give the sums
\* large denominators).
Exact(d, cex_price) ==
    LET target_price == get_target_price(d, cex_price)
        target == IF d.preset_target_price # None THEN d.preset_target_price
                  ELSE target_price
    IN  IF target_price = None THEN TRUE
        ELSE /\ IsSquare(target)
             /\ IsSquare(RMul(d.reserve_x, d.reserve_y))
             /\ GridPrice(price(d)) /\ TickExact(price(d))
             /\ GridPrice(target) /\ TickExact(target)
             /\ LET amounts == get_amounts_to_target_price(d, target_price)
                    fee == trade_lp_fee(d, cex_price, amounts.delta_x, amounts.delta_y)
                    lvr == trade_lvr(cex_price, amounts.delta_x, amounts.delta_y)
                    gross == RSub(lvr, fee.lp_fee)
                IN  /\ CanAdd(gross, d.basefee_usd)
                    /\ CanAdd(d.sbp_profits, RSub(gross, d.basefee_usd))
                    /\ CanAdd(d.basefees, d.basefee_usd)
                    /\ CanAdd(d.lvr, lvr)
                    /\ CanAdd(d.lp_fees, fee.lp_fee)
                    /\ CanAdd(RAbs(amounts.delta_y), fee.lp_fee)
                    /\ CanAdd(d.volume, RAdd(RAbs(amounts.delta_y), fee.lp_fee))

\* a direct swap is modelled where its sums stay within the integers of the model
ExactSwap(d, fee_value, volume_value) ==
    /\ CanAdd(d.lp_fees, fee_value)
    /\ CanAdd(d.volume, volume_value)
    /\ CanAdd(d.basefees, d.basefee_usd)

-----------------------------------------------------------------------------
(* One pool driven by its callers                                          *)

\* at most MaxTx transactions are counted in num_tx
MaxTx == 3

\* square roots of the prices the reference price is drawn around
SqrtPrices == {R(1, 2), One, R(2, 1)}

\* fee levels passed to set_fee_bps: none, the constructor's 5 bps, 75 %
FeeBps == {0, 5, 7500}

\* basefees passed to set_basefee_usd, in units of POOL_RESERVES_USD
BasefeesUsd == {Zero, Usd(DEFAULT_BASEFEE_USD), R(1, 4)}

\* net inputs of the direct swaps; the caller passes fee_factor times as much
NetAmounts == {One}

Half == R(1, 2)

\* reference prices on the edges, in the middle and in the two halves of the
\* no-arbitrage band of d
BandPrices(d) ==
    LET p == price(d)
        f == d.fee_factor
    IN  { RDiv(p, f), RMul(Half, RAdd(p, RDiv(p, f))), p,
          RMul(Half, RAdd(p, RMul(p, f))), RMul(p, f) }

\* reference prices presented to maybe_arbitrage: the middle and the edges of the band,
\* and the prices that move the pool to a price of the grid
CexPrices(d) ==
    { price(d), RDiv(price(d), d.fee_factor), RMul(price(d), d.fee_factor) }
      \cup { RMul(RMul(g, g), d.fee_factor) : g \in SqrtPrices }
      \cup { RDiv(RMul(g, g), d.fee_factor) : g \in SqrtPrices }

\* the last call: its name, its argument, and what maybe_arbitrage returned and computed
Called(op, arg) ==
    [op |-> op, arg |-> arg, ret |-> None,
     target_price |-> None, lp_fee |-> None, lvr |-> None, sbp_profit |-> None]

\* no script of src/simple_examples.py is running
NoExample == [name |-> "none"]

\* total pool values passed to DEX(): the default, and ARB_POOL_LIQUIDITY_USD =
\* POOL_LIQUIDITY_USD / 2.56 of src/simulation_examples_arbitrum.py
PoolValues == {POOL_LIQUIDITY_USD, (POOL_LIQUIDITY_USD \div 64) * 25}

Init ==
    /\ example = NoExample
    /\ \E pool_liquidity_usd \in PoolValues :
         /\ dex = DEX(pool_liquidity_usd)
         /\ call = Called("DEX", pool_liquidity_usd)

\* the callers configure a fresh pool before they use it (estimate_performance)
Fresh == call.op \in {"DEX", "set_fee_bps", "set_basefee_usd"}

SetFeeBps ==
    \E fee_bps \in FeeBps :
        /\ Fresh
        /\ dex' = set_fee_bps(dex, fee_bps)
        /\ call' = Called("set_fee_bps", fee_bps)
        /\ UNCHANGED example

SetBasefeeUsd ==
    \E basefee_usd \in BasefeesUsd :
        /\ Fresh
        /\ dex' = set_basefee_usd(dex, basefee_usd)
        /\ call' = Called("set_basefee_usd", basefee_usd)
        /\ UNCHANGED example

SwapXToY ==
    \E net \in NetAmounts :
        LET amount_in_x == RMul(net, dex.fee_factor)
        IN  /\ dex.num_tx < MaxTx
            /\ ExactSwap(dex, RMul(RSub(amount_in_x, net), price(dex)),
                          RMul(amount_in_x, price(dex)))
            /\ dex' = swap_x_to_y(dex, amount_in_x)
            /\ call' = Called("swap_x_to_y", amount_in_x)
            /\ UNCHANGED example

SwapYToX ==
    \E net \in NetAmounts :
        LET amount_in_y == RMul(net, dex.fee_factor)
        IN  /\ dex.num_tx < MaxTx
            /\ ExactSwap(dex, RSub(amount_in_y, net), amount_in_y)
            /\ dex' = swap_y_to_x(dex, amount_in_y)
            /\ call' = Called("swap_y_to_x", amount_in_y)
            /\ UNCHANGED example

MaybeArbitrage ==
    \E cex_price \in CexPrices(dex) :
        /\ Exact(dex, cex_price)
        /\ LET r == maybe_arbitrage(dex, cex_price)
           IN  /\ r.dex.num_tx <= MaxTx
               /\ dex' = r.dex
               /\ call' = [op |-> "maybe_arbitrage", arg |-> cex_price, ret |-> r.ret,
                           target_price |-> r.target_price, lp_fee |-> r.lp_fee,
                           lvr |-> r.lvr, sbp_profit |-> r.sbp_profit]
        /\ UNCHANGED example

Next ==
    \/ SetFeeBps
    \/ SetBasefeeUsd
    \/ SwapXToY
    \/ SwapYToX
    \/ MaybeArbitrage

Spec == Init /\ [][Next]_vars

\* the pool driven by maybe_arbitrage alone, as estimate_performance drives it
NextArbitrage ==
    \/ SetFeeBps
    \/ SetBasefeeUsd
    \/ MaybeArbitrage

SpecArbitrage == Init /\ [][NextArbitrage]_vars

-----------------------------------------------------------------------------
(* example_3 of src/simple_examples.py: two pools built alike; the one is   *)
(* shown two rising reference prices in turn, the other only the second     *)

\* square roots of the prices the reference price rises to, before the fee
Rises == {One, R(5, 4), R(3, 2), R(2, 1), R(3, 1)}

Configured(fee_bps, basefee_usd) == set_basefee_usd(set_fee_bps(DEX(POOL_LIQUIDITY_USD), fee_bps), basefee_usd)

Init3 ==
    /\ dex = DEX(POOL_LIQUIDITY_USD)
    /\ call = Called("DEX", POOL_LIQUIDITY_USD)
    /\ \E fee_bps \in FeeBps, basefee_usd \in BasefeesUsd, g1 \in Rises, g2 \in Rises :
         LET d == Configured(fee_bps, basefee_usd)
             c1 == RMul(RMul(g1, g1), d.fee_factor)
             c2 == RMul(RMul(g2, g2), d.fee_factor)
         IN  /\ RLt(price(d), c1)
             /\ RLt(c1, c2)
             /\ example = [name |-> "example_3", pc |-> 0, prices |-> <<c1, c2>>,
                           short_block_dex |-> d, long_block_dex |-> d]

\* simulate_arbitrage_trade(short_block_dex, None, ...), first and second call
ShortBlock ==
    /\ example.name = "example_3"
    /\ example.pc \in {0, 1}
    /\ LET cex_price == example.prices[example.pc + 1]
       IN  /\ Exact(example.short_block_dex, cex_price)
           /\ example' = [example EXCEPT
                 !.pc = @ + 1,
                 !.short_block_dex = maybe_arbitrage(@, cex_price).dex]
    /\ UNCHANGED <<dex, call>>

\* simulate_arbitrage_trade(long_block_dex, None, ...)
LongBlock ==
    /\ example.name = "example_3"
    /\ example.pc = 2
    /\ LET cex_price == example.prices[2]
       IN  /\ Exact(example.long_block_dex, cex_price)
           /\ example' = [example EXCEPT
                 !.pc = 3,
                 !.long_block_dex = maybe_arbitrage(@, cex_price).dex]
    /\ UNCHANGED <<dex, call>>

Next3 ==
    \/ ShortBlock
    \/ LongBlock

Spec3 == Init3 /\ [][Next3]_vars

-----------------------------------------------------------------------------
(* example_0 of src/simple_examples.py: two pools built alike; the one      *)
(* takes a swap whole, the other takes it in equal parts                    *)

\* the largest number of parts
MaxParts == 3

\* the whole inputs, before the fee
Inputs == {R(1, 2), One, R(2, 1)}

Init0 ==
    /\ dex = DEX(POOL_LIQUIDITY_USD)
    /\ call = Called("DEX", POOL_LIQUIDITY_USD)
    /\ \E fee_bps \in FeeBps, basefee_usd \in BasefeesUsd, net \in Inputs,
          k \in 2..MaxParts, swap \in {"swap_x_to_y", "swap_y_to_x"} :
         LET d == Configured(fee_bps, basefee_usd)
         IN  example = [name |-> "example_0", swap |-> swap, parts |-> k, done |-> 0,
                        amount |-> RMul(net, d.fee_factor), dex1 |-> d, dex1a |-> d,
                        out1 |-> Zero, out1a |-> Zero]

Swap(d, swap, amount) ==
    IF swap = "swap_x_to_y" THEN swap_x_to_y(d, amount) ELSE swap_y_to_x(d, amount)

\* what the swap returns: the amount of the other asset paid out
SwapOut(d, swap, amount) ==
    IF swap = "swap_x_to_y" THEN swap_x_to_y_out(d, amount) ELSE swap_y_to_x_out(d, amount)

ExactSwapOf(d, swap, amount) ==
    LET net == RDiv(amount, d.fee_factor)
    IN  IF swap = "swap_x_to_y"
        THEN ExactSwap(d, RMul(RSub(amount, net), price(d)), RMul(amount, price(d)))
        ELSE ExactSwap(d, RSub(amount, net), amount)

\* dex1 takes the whole amount in one swap
WholeSwap ==
    /\ example.name = "example_0"
    /\ example.dex1.num_tx = 0
    /\ ExactSwapOf(example.dex1, example.swap, example.amount)
    /\ example' = [example EXCEPT
          !.dex1 = Swap(@, example.swap, example.amount),
          !.out1 = RAdd(@, SwapOut(example.dex1, example.swap, example.amount))]
    /\ UNCHANGED <<dex, call>>

\* dex1a takes one of the equal parts
PartSwap ==
    /\ example.name = "example_0"
    /\ example.dex1.num_tx = 1
    /\ example.done < example.parts
    /\ LET part == RDiv(example.amount, R(example.parts, 1))
       IN  /\ ExactSwapOf(example.dex1a, example.swap, part)
           /\ example' = [example EXCEPT
                 !.done = @ + 1,
                 !.dex1a = Swap(@, example.swap, part),
                 !.out1a = RAdd(@, SwapOut(example.dex1a, example.swap, part))]
    /\ UNCHANGED <<dex, call>>

Next0 ==
    \/ WholeSwap
    \/ PartSwap

Spec0 == Init0 /\ [][Next0]_vars

-----------------------------------------------------------------------------
(* example_0 of src/simple_examples.py: two pools built alike take the same *)
(* two swaps, dex1 the swap of X first, dex2 the swap of Y first            *)

InitOrder ==
    /\ dex = DEX(POOL_LIQUIDITY_USD)
    /\ call = Called("DEX", POOL_LIQUIDITY_USD)
    /\ \E fee_bps \in FeeBps, basefee_usd \in BasefeesUsd, net_x \in Inputs, net_y \in Inputs :
         LET d == Configured(fee_bps, basefee_usd)
         IN  example = [name |-> "example_0 dex1 dex2", pc |-> 0,
                        amount_in_x |-> RMul(net_x, d.fee_factor),
                        amount_in_y |-> RMul(net_y, d.fee_factor),
                        dex1 |-> d, dex2 |-> d]

\* dex1.swap_x_to_y(10.0)
Dex1SwapXToY ==
    /\ example.name = "example_0 dex1 dex2"
    /\ example.pc = 0
    /\ ExactSwapOf(example.dex1, "swap_x_to_y", example.amount_in_x)
    /\ example' = [example EXCEPT !.pc = 1,
                                   !.dex1 = swap_x_to_y(@, example.amount_in_x)]
    /\ UNCHANGED <<dex, call>>

\* dex1.swap_y_to_x(10000)
Dex1SwapYToX ==
    /\ example.name = "example_0 dex1 dex2"
    /\ example.pc = 1
    /\ ExactSwapOf(example.dex1, "swap_y_to_x", example.amount_in_y)
    /\ example' = [example EXCEPT !.pc = 2,
                                   !.dex1 = swap_y_to_x(@, example.amount_in_y)]
    /\ UNCHANGED <<dex, call>>

\* dex2.swap_y_to_x(10000)
Dex2SwapYToX ==
    /\ example.name = "example_0 dex1 dex2"
    /\ example.pc = 2
    /\ ExactSwapOf(example.dex2, "swap_y_to_x", example.amount_in_y)
    /\ example' = [example EXCEPT !.pc = 3,
                                   !.dex2 = swap_y_to_x(@, example.amount_in_y)]
    /\ UNCHANGED <<dex, call>>

\* dex2.swap_x_to_y(10.0)
Dex2SwapXToY ==
    /\ example.name = "example_0 dex1 dex2"
    /\ example.pc = 3
    /\ ExactSwapOf(example.dex2, "swap_x_to_y", example.amount_in_x)
    /\ example' = [example EXCEPT !.pc = 4,
                                   !.dex2 = swap_x_to_y(@, example.amount_in_x)]
    /\ UNCHANGED <<dex, call>>

NextOrder ==
    \/ Dex1SwapXToY
    \/ Dex1SwapYToX
    \/ Dex2SwapYToX
    \/ Dex2SwapXToY

SpecOrder == InitOrder /\ [][NextOrder]_vars

-----------------------------------------------------------------------------
(* plot_profits_on_target_price of src/simple_examples.py: a new pool for   *)
(* every candidate target price, forced through preset_target_price         *)

\* square roots of the candidate target prices, in rising order as np.linspace has them
TargetRoots ==
    <<R(1, 4), R(1, 3), R(1, 2), R(2, 3), R(3, 4), One,
      R(5, 4), R(3, 2), R(2, 1), R(3, 1), R(4, 1)>>

\* square roots of the reference prices, before the fee
CexRoots == {R(1, 2), R(2, 3), R(3, 4), R(5, 4), R(3, 2), R(2, 1)}

\* dex.preset_target_price = target_price
preset(d, target_price) == [d EXCEPT !.preset_target_price = target_price]

InitTarget ==
    /\ dex = DEX(POOL_LIQUIDITY_USD)
    /\ call = Called("DEX", POOL_LIQUIDITY_USD)
    /\ \E fee_bps \in FeeBps, basefee_usd \in BasefeesUsd, g \in CexRoots :
         LET d == Configured(fee_bps, basefee_usd)
             cex_price == IF RLt(One, g) THEN RMul(RMul(g, g), d.fee_factor)
                          ELSE RDiv(RMul(g, g), d.fee_factor)
             Between(h) == IF RLt(price(d), cex_price)
                           THEN RLe(price(d), RMul(h, h)) /\ RLe(RMul(h, h), cex_price)
                           ELSE RLe(cex_price, RMul(h, h)) /\ RLe(RMul(h, h), price(d))
             roots == SelectSeq(TargetRoots, Between)
         IN  /\ Exact(d, cex_price)
             /\ example = [name |-> "plot_profits_on_target_price", fee_bps |-> fee_bps,
                           basefee_usd |-> basefee_usd, cex_price |-> cex_price,
                           prices |-> [i \in 1..Len(roots) |-> RMul(roots[i], roots[i])],
                           profits |-> <<>>]

\* the body of the loop over the candidate target prices
ProfitOnTarget ==
    /\ example.name = "plot_profits_on_target_price"
    /\ Len(example.profits) < Len(example.prices)
    /\ LET target_price == example.prices[Len(example.profits) + 1]
           d == preset(Configured(example.fee_bps, example.basefee_usd), target_price)
       IN  /\ Exact(d, example.cex_price)
           /\ example' = [example EXCEPT
                 !.profits = Append(@, maybe_arbitrage(d, example.cex_price).dex.sbp_profits)]
    /\ UNCHANGED <<dex, call>>

NextTarget == ProfitOnTarget

SpecTarget == InitTarget /\ [][NextTarget]_vars

-----------------------------------------------------------------------------
(* One pool with a position, driven as estimate_performance of              *)
(* src/simulation_examples_cl.py drives it: rebalance, then maybe_arbitrage *)
(* on every price and rebalance_above where the price has left the range    *)
(* upwards, then remove_position; and by direct calls of add_position.      *)

\* at most MaxCalls calls are made on one pool
MaxCalls == 3

\* margin = 1 of estimate_performance
RangeMargin == 1

\* square roots of the prices of the path
SqrtPricesCL == {R(1, 2), One, R(3, 2)}

\* fee levels of the pools with a position
FeeBpsCL == {0, 7500}

\* range_width: below the tick spacing, the tick spacing, and a width whose margin in
\* rebalance is odd
RangeWidths == {4, 10, 12}

\* contributed values, in units of POOL_RESERVES_USD: an eighth of the USD reserve of
\* the pool, and twice that reserve
PositionValues == {R(1, 8), R(2, 1)}

\* initial_liquidity_usd of estimate_performance (100 USD there), taken as large as
\* the smaller contributed value so that the position's share of a fee is visible
InitialLiquidityUsd == R(1, 8)

\* tick ranges passed to add_position: even and odd bounds around the tick of ETH_PRICE,
\* and a range below it
TickRanges == {<<-2, 2>>, <<-1, 3>>, <<-4, -2>>}

\* reference prices presented to maybe_arbitrage: those that move the pool to a price
\* of the path
CexPricesCL(d) ==
    {price(d)}
      \cup { RMul(RMul(g, g), d.fee_factor) : g \in {h \in SqrtPricesCL : RLt(price(d), RMul(h, h))} }
      \cup { RDiv(RMul(g, g), d.fee_factor) : g \in {h \in SqrtPricesCL : RLt(RMul(h, h), price(d))} }

\* reference prices at which a position is valued: the pool price and a price of the
\* path
ValuePrices(d) == {price(d), R(9, 4)}

\* the last call on the pool with a position: liquidity_usd is the value passed to
\* add_position by the call or within it, None where there is none
CalledCL(op, arg, ret, liquidity_usd) ==
    [op |-> op, arg |-> arg, ret |-> ret, liquidity_usd |-> liquidity_usd]

InitCL ==
    \E fee_bps \in FeeBpsCL :
        /\ dex = Configured(fee_bps, Zero)
        /\ call = CalledCL("set_basefee_usd", Zero, None, None)
        /\ example = [name |-> "estimate_performance", fee_bps |-> fee_bps, calls |-> 0]

\* the products of a with numbers of the size of scale stay within the integers of
\* the model
Small(a, scale) == Abs(a[1]) <= 1048576 \div scale /\ a[2] <= 1048576 \div scale

\* the size of the square-root prices of the pool and of a range
RangeScale(d, tick_low, tick_high) ==
    Power(2, Abs(tick_low)) * Power(2, Abs(tick_high)) * sqrt(price(d))[1] * sqrt(price(d))[2]

\* add_position(liquidity_usd, tick_low, tick_high) is modelled where the products of
\* liquidity_usd with the square-root prices of the pool and of the range stay within
\* the integers of the model
CanPosition(d, liquidity_usd, tick_low, tick_high) ==
    Small(liquidity_usd, RangeScale(d, tick_low, tick_high))

\* remove_position(cex_price) likewise, for the liquidity and the fees of the position
CanRemove(d, cex_price) ==
    /\ Small(d.pos_liquidity, RangeScale(d, d.pos_tick_low, d.pos_tick_high))
    /\ Small(d.pos_fees_usd, cex_price[1] * cex_price[2])
    /\ Small(d.pos_fees_eth, cex_price[1] * cex_price[2])

\* the last call failed the assertion of add_position
Raised ==
    IF call.op \in {"add_position", "rebalance", "rebalance_above"}
    THEN call.ret = "AssertionError" ELSE FALSE

\* a failed assertion ends the path
Running ==
    /\ example.name = "estimate_performance"
    /\ example.calls < MaxCalls
    /\ ~Raised

Counted == example' = [example EXCEPT !.calls = @ + 1]

AddPosition ==
    \E liquidity_usd \in PositionValues, range \in TickRanges :
        /\ Running
        /\ CanPosition(dex, liquidity_usd, range[1], range[2])
        /\ \E r \in {add_position(dex, liquidity_usd, range[1], range[2])} :
            /\ dex' = r.dex
            /\ call' = CalledCL("add_position",
                                [liquidity_usd |-> liquidity_usd, tick_low |-> range[1],
                                 tick_high |-> range[2]], r.ret, liquidity_usd)
        /\ Counted

RemovePosition ==
    \E cex_price \in ValuePrices(dex) :
        /\ Running
        /\ CanRemove(dex, cex_price)
        /\ \E r \in {remove_position(dex, cex_price)} :
            /\ dex' = r.dex
            /\ call' = CalledCL("remove_position", cex_price, r.ret, None)
        /\ Counted

\* estimate_performance, line 46
Rebalance ==
    \E cex_price \in ValuePrices(dex), width_in_ticks \in RangeWidths,
       additional_usd \in {InitialLiquidityUsd} :
        /\ Running
        /\ CanRemove(dex, cex_price)
        /\ \E removed \in {remove_position(dex, cex_price)},
              range \in {rebalance_range(dex, width_in_ticks)} :
            CanPosition(dex, RAdd(removed.ret, additional_usd), range.low, range.high)
        /\ \E r \in {rebalance(dex, cex_price, width_in_ticks, additional_usd)} :
            /\ dex' = r.dex
            /\ call' = CalledCL("rebalance",
                                [cex_price |-> cex_price, width_in_ticks |-> width_in_ticks,
                                 additional_usd |-> additional_usd],
                                r.ret, RAdd(r.usd, additional_usd))
        /\ Counted

\* estimate_performance, lines 50-51
RebalanceAbove ==
    \E cex_price \in ValuePrices(dex), width_in_ticks \in RangeWidths :
        /\ Running
        /\ is_above_range(dex, RangeMargin)
        /\ CanRemove(dex, cex_price)
        /\ \E removed \in {remove_position(dex, cex_price)},
              range \in {rebalance_above_range(dex, width_in_ticks)} :
            CanPosition(dex, removed.ret, range.low, range.high)
        /\ \E r \in {rebalance_above(dex, cex_price, width_in_ticks, Zero)} :
            /\ dex' = r.dex
            /\ call' = CalledCL("rebalance_above",
                                [cex_price |-> cex_price, width_in_ticks |-> width_in_ticks,
                                 additional_usd |-> Zero], r.ret, r.usd)
        /\ Counted

\* estimate_performance, line 49
ArbitrageCL ==
    \E cex_price \in CexPricesCL(dex) :
        /\ Running
        /\ Exact(dex, cex_price)
        /\ Small(dex.pos_liquidity_share, 1024)
        /\ Small(dex.pos_fees_usd, 1024) /\ Small(dex.pos_fees_eth, 1024)
        /\ \E r \in {maybe_arbitrage(dex, cex_price)} :
            /\ dex' = r.dex
            /\ call' = CalledCL("maybe_arbitrage", cex_price, r.ret, None)
        /\ Counted

NextCL == AddPosition \/ RemovePosition \/ Rebalance \/ RebalanceAbove \/ ArbitrageCL

SpecCL == InitCL /\ [][NextCL]_vars

-----------------------------------------------------------------------------
(* The pool with a position driven by every operation that moves it: the    *)
(* calls of estimate_performance and the direct swaps.                      *)

SwapXToYCL ==
    \E net \in NetAmounts :
        /\ Running
        /\ \E amount_in_x \in {RMul(net, dex.fee_factor)} :
            /\ ExactSwap(dex, RMul(RSub(amount_in_x, net), price(dex)),
                          RMul(amount_in_x, price(dex)))
            /\ dex' = swap_x_to_y(dex, amount_in_x)
            /\ call' = CalledCL("swap_x_to_y", amount_in_x,
                                swap_x_to_y_out(dex, amount_in_x), None)
        /\ Counted

SwapYToXCL ==
    \E net \in NetAmounts :
        /\ Running
        /\ \E amount_in_y \in {RMul(net, dex.fee_factor)} :
            /\ ExactSwap(dex, RSub(amount_in_y, net), amount_in_y)
            /\ dex' = swap_y_to_x(dex, amount_in_y)
            /\ call' = CalledCL("swap_y_to_x", amount_in_y,
                                swap_y_to_x_out(dex, amount_in_y), None)
        /\ Counted

NextAll ==
    \/ AddPosition
    \/ RemovePosition
    \/ Rebalance
    \/ RebalanceAbove
    \/ ArbitrageCL
    \/ SwapXToYCL
    \/ SwapYToXCL

SpecAll == InitCL /\ [][NextAll]_vars

-----------------------------------------------------------------------------
(* src/replication.py: the price-only model of test_probs_uniform, run on   *)
(* the reference prices that a pool without basefee is shown                *)

\* the longest price path
MaxTicks == 3

\* test_probs_uniform: fee_factor = (10_000 - fee_bps) / 10_000
QuickFeeFactor(fee_bps) == R(10000 - fee_bps, 10000)

\* test_probs_uniform, the body of its loop for one reference price: the pool price
\* and the number of transactions it leaves
test_probs_uniform(pool_price, n_tx, cex_price, fee_factor) ==
    LET skip == [pool_price |-> pool_price, n_tx |-> n_tx]
    IN  IF RLt(pool_price, cex_price)
        THEN LET target_price == RMul(cex_price, fee_factor)
             IN  IF RLt(target_price, pool_price) THEN skip
                 ELSE [pool_price |-> target_price, n_tx |-> n_tx + 1]
        ELSE LET target_price == RDiv(cex_price, fee_factor)
             IN  IF RLt(pool_price, target_price) THEN skip
                 ELSE [pool_price |-> target_price, n_tx |-> n_tx + 1]

InitQuick ==
    /\ dex = DEX(POOL_LIQUIDITY_USD)
    /\ call = Called("DEX", POOL_LIQUIDITY_USD)
    /\ \E fee_bps \in FeeBps \ {0} :
         LET d == Configured(fee_bps, Zero)
         IN  example = [name |-> "replication", fee_bps |-> fee_bps, tick |-> 0,
                        full |-> d, pool_price |-> price(d), n_tx |-> 0,
                        cex_price |-> None, price_before |-> None, ret |-> None]

\* one reference price reaches both models
QuickTick ==
    /\ example.name = "replication"
    /\ example.tick < MaxTicks
    /\ \E cex_price \in CexPrices(example.full) :
         /\ Exact(example.full, cex_price)
         /\ LET r == maybe_arbitrage(example.full, cex_price)
                q == test_probs_uniform(example.pool_price, example.n_tx, cex_price,
                                        QuickFeeFactor(example.fee_bps))
            IN  example' = [example EXCEPT
                    !.tick = @ + 1,
                    !.full = r.dex,
                    !.pool_price = q.pool_price,
                    !.n_tx = q.n_tx,
                    !.cex_price = cex_price,
                    !.price_before = price(example.full),
                    !.ret = r.ret]
    /\ UNCHANGED <<dex, call>>

NextQuick == QuickTick

SpecQuick == InitQuick /\ [][NextQuick]_vars

-----------------------------------------------------------------------------
(* get_fee_share on the positions that add_position leaves: the pool is     *)
(* given a position once, and get_fee_share is then called on pairs of      *)
(* prices.                                                                  *)

\* ticks of the swap prices: three ticks on both sides of the tick of ETH_PRICE
MaxTick == 3

\* swap prices: the prices of the ticks, and two prices between ticks
SwapPrices == {to_price(t) : t \in -MaxTick..MaxTick} \cup {R(3, 1), R(1, 3)}

\* ranges of the position: around the tick of ETH_PRICE, beside it, of one tick, and
\* below the price
ShareRanges == {<<-2, 2>>, <<-1, 3>>, <<1, 2>>, <<0, 1>>, <<-4, -2>>}

\* the last call of get_fee_share: its arguments, the exception it raised, and the
\* share it returned
CalledShare(op, arg, raised, ret) ==
    [op |-> op, arg |-> arg, raised |-> raised, ret |-> ret]

InitShare ==
    /\ dex = DEX(POOL_LIQUIDITY_USD)
    /\ call = CalledShare("DEX", POOL_LIQUIDITY_USD, "returned", None)
    /\ example = [name |-> "get_fee_share"]

PositionShare ==
    \E liquidity_usd \in PositionValues, range \in ShareRanges :
        /\ call.op = "DEX"
        /\ \E r \in {add_position(dex, liquidity_usd, range[1], range[2])} :
            /\ r.ret # "AssertionError"
            /\ dex' = r.dex
            /\ call' = CalledShare("add_position",
                                   [liquidity_usd |-> liquidity_usd, tick_low |-> range[1],
                                    tick_high |-> range[2]], "returned", None)
        /\ UNCHANGED example

FeeShare ==
    \E swap_price_start \in SwapPrices, swap_price_end \in SwapPrices :
        /\ \E raised \in {get_fee_share_raises(dex, swap_price_start, swap_price_end)} :
            call' = CalledShare("get_fee_share",
                                [swap_price_start |-> swap_price_start,
                                 swap_price_end |-> swap_price_end],
                                raised,
                                IF raised = "returned"
                                THEN get_fee_share(dex, swap_price_start, swap_price_end)
                                ELSE None)
        /\ UNCHANGED <<dex, example>>

NextShare == PositionShare \/ FeeShare

SpecShare == InitShare /\ [][NextShare]_vars

-----------------------------------------------------------------------------
(* simulate_some_blocks of src/simulation_examples_eip7781.py: the array    *)
(* of price paths is regrouped into blocks for every block time, and        *)
(* estimate_mean_performance runs every path on a pool of its own.          *)
(* An array is its shape and its elements in row-major order, as numpy      *)
(* keeps it; an element is a price with the second and the simulation it    *)
(* was generated for.                                                       *)

\* SIMULATION_DURATION_SEC, the number of prices of a path
NumPrices == 6

\* NUM_SIMULATIONS, the number of paths
NumSims == 2

\* BLOCK_TIMES_SEC: lists of block times that divide the number of prices
BlockTimeLists == {<<2, 3>>, <<1, 2, 3, 6>>}

\* fee levels of the simulated pools
FeeBpsBlocks == {0, 7500}

\* the paths, as the exponents of their prices to the base TickBase: paths with prices
\* that repeat and prices inside the band of the pool (no trade), and prices outside it
PathExponents ==
    { << <<0, 1, 1, 2, 0, -1>>, <<0, 0, 2, 2, 1, 3>> >>,
      << <<0, 2, 3, 1, 1, -2>>, <<0, -1, -1, 1, 3, 3>> >> }

\* the array of shape (NumPrices, NumSims) that get_price_paths returns
price_paths(exponents) ==
    [shape |-> <<NumPrices, NumSims>>,
     data |-> [e \in 1..(NumPrices * NumSims) |->
                 LET t == (e - 1) \div NumSims
                     sim == (e - 1) % NumSims
                 IN  [t |-> t, sim |-> sim, price |-> to_price(exponents[sim + 1][t + 1])]]]

\* numpy reshape: the elements keep their row-major order
reshape(a, shape) == [shape |-> shape, data |-> a.data]

\* a[:, -1, :] of an array of three dimensions
last_of_second(a) ==
    [shape |-> <<a.shape[1], a.shape[3]>>,
     data |-> [e \in 1..(a.shape[1] * a.shape[3]) |->
                 LET i == (e - 1) \div a.shape[3]
                     m == (e - 1) % a.shape[3]
                 IN  a.data[(i * a.shape[2] + (a.shape[2] - 1)) * a.shape[3] + m + 1]]]

\* estimate_mean_performance, lines 59-61
take_last(a) == IF Len(a.shape) > 2 THEN last_of_second(a) ELSE a

\* a[:, sim] of an array of two dimensions
column(a, sim) == [i \in 1..a.shape[1] |-> a.data[(i - 1) * a.shape[2] + sim + 1]]

\* the loop over the prices stops at the first tick without a trade
continues_on_trade(ret) == ret

\* estimate_performance, lines 47-48: the loop goes on whatever maybe_arbitrage returns
continues(ret) == TRUE

\* the metrics that estimate_performance returns
metrics(d) ==
    [lvr |-> d.lvr, lp_fees |-> d.lp_fees, sbp_profits |-> d.sbp_profits,
     basefees |-> d.basefees, num_tx |-> d.num_tx]

InitBlocks ==
    \E exponents \in PathExponents, block_times \in BlockTimeLists, fee_bps \in FeeBpsBlocks :
        /\ dex = DEX(POOL_LIQUIDITY_USD)
        /\ call = CalledCL("DEX", POOL_LIQUIDITY_USD, None, None)
        /\ example = [name |-> "simulate_some_blocks",
                      at |-> "simulate_some_blocks",
                      block_times |-> block_times,
                      done |-> 0,
                      fee_bps |-> fee_bps,
                      all_prices |-> price_paths(exponents),
                      mean_prices |-> price_paths(exponents),
                      sim |-> 0,
                      prices |-> <<>>,
                      presented |-> <<>>,
                      go_on |-> TRUE,
                      all_metrics |-> <<>>]

\* simulate_some_blocks, lines 91-97, and estimate_mean_performance, lines 59-61
BlockTime ==
    /\ example.name = "simulate_some_blocks"
    /\ example.at = "simulate_some_blocks"
    /\ example.done < Len(example.block_times)
    /\ LET block_time == example.block_times[example.done + 1]
           all_prices == IF block_time > 1
                         THEN reshape(example.all_prices,
                                      <<NumPrices \div block_time, block_time, NumSims>>)
                         ELSE example.all_prices
       IN  example' = [example EXCEPT !.at = "estimate_mean_performance",
                                      !.all_prices = all_prices,
                                      !.mean_prices = take_last(all_prices),
                                      !.sim = 0,
                                      !.all_metrics = <<>>]
    /\ UNCHANGED <<dex, call>>

\* estimate_mean_performance, lines 63-66, and estimate_performance, lines 43-46
StartPath ==
    /\ example.name = "simulate_some_blocks"
    /\ example.at = "estimate_mean_performance"
    /\ example.sim < example.mean_prices.shape[2]
    /\ dex' = Configured(example.fee_bps, Zero)
    /\ call' = CalledCL("set_basefee_usd", Zero, None, None)
    /\ example' = [example EXCEPT !.at = "estimate_performance",
                                  !.prices = column(example.mean_prices, example.sim),
                                  !.presented = <<>>,
                                  !.go_on = TRUE]

\* estimate_performance, lines 47-48: one pass of the loop
PathTick ==
    /\ example.name = "simulate_some_blocks"
    /\ example.at = "estimate_performance"
    /\ example.go_on
    /\ Len(example.presented) < Len(example.prices)
    /\ LET next == example.prices[Len(example.presented) + 1]
       IN  /\ Exact(dex, next.price)
           /\ \E r \in {maybe_arbitrage(dex, next.price)} :
               /\ dex' = r.dex
               /\ call' = CalledCL("maybe_arbitrage", next.price, r.ret, None)
               /\ example' = [example EXCEPT
                      !.presented = Append(@, [t |-> next.t, sim |-> next.sim,
                                               price |-> next.price, ret |-> r.ret]),
                      !.go_on = continues(r.ret)]

\* estimate_performance, line 49, and estimate_mean_performance, lines 67-71
PathReturn ==
    /\ example.name = "simulate_some_blocks"
    /\ example.at = "estimate_performance"
    /\ Len(example.presented) = Len(example.prices) \/ ~example.go_on
    /\ example' = [example EXCEPT !.at = "estimate_mean_performance",
                                  !.sim = @ + 1,
                                  !.all_metrics = Append(@, metrics(dex))]
    /\ UNCHANGED <<dex, call>>

\* estimate_mean_performance, lines 73-74, and simulate_some_blocks, lines 98-103
MeanReturn ==
    /\ example.name = "simulate_some_blocks"
    /\ example.at = "estimate_mean_performance"
    /\ example.sim = example.mean_prices.shape[2]
    /\ example' = [example EXCEPT !.at = "simulate_some_blocks", !.done = @ + 1]
    /\ UNCHANGED <<dex, call>>

NextBlocks == BlockTime \/ StartPath \/ PathTick \/ PathReturn \/ MeanReturn

SpecBlocks == InitBlocks /\ [][NextBlocks]_vars

-----------------------------------------------------------------------------
(* The paths of estimate_mean_performance evaluated concurrently: every     *)
(* call of estimate_performance has its pool in its local variable dex,     *)
(* and the ticks of different calls are taken in any order.  Here dex is    *)
(* the pools of the calls, by simulation.                                   *)

Sims == 0..(NumSims - 1)

\* every call uses one pool, the same for all
pool_of_shared(sim) == 0

\* estimate_performance, line 43: dex = DEX(), a pool of the call's own
pool_of(sim) == sim

\* estimate_performance, lines 47-48, on the first k prices
RECURSIVE run_path(_, _, _)
run_path(d, prices, k) ==
    IF k = 0 THEN d
    ELSE maybe_arbitrage(run_path(d, prices, k - 1), prices[k]).dex

InitPaths ==
    \E exponents \in PathExponents, fee_bps \in FeeBpsBlocks :
        /\ dex = [sim \in Sims |-> Configured(fee_bps, Zero)]
        /\ call = CalledCL("set_basefee_usd", Zero, None, None)
        /\ example = [name |-> "estimate_mean_performance",
                      fee_bps |-> fee_bps,
                      prices |-> [sim \in Sims |->
                                    [t \in 1..NumPrices |-> to_price(exponents[sim + 1][t])]],
                      presented |-> [sim \in Sims |-> 0],
                      sim |-> 0]

\* estimate_performance, lines 47-48: one pass of the loop of one call
TickOfPath ==
    \E sim \in Sims :
        /\ example.name = "estimate_mean_performance"
        /\ example.presented[sim] < NumPrices
        /\ LET cex_price == example.prices[sim][example.presented[sim] + 1]
           IN  /\ Exact(dex[pool_of(sim)], cex_price)
               /\ \E r \in {maybe_arbitrage(dex[pool_of(sim)], cex_price)} :
                   /\ dex' = [dex EXCEPT ![pool_of(sim)] = r.dex]
                   /\ call' = CalledCL("maybe_arbitrage", cex_price, r.ret, None)
        /\ example' = [example EXCEPT !.presented[sim] = @ + 1, !.sim = sim]

NextPaths == TickOfPath

SpecPaths == InitPaths /\ [][NextPaths]_vars

-----------------------------------------------------------------------------
(* The first price of a path: get_price_paths draws it from the region      *)
(* that get_non_arbitrage_region finds on a pool DEX(), and                 *)
(* estimate_performance presents it to a fresh pool with the simulated fee. *)

\* the prices that get_non_arbitrage_region scans, in increasing order: a grid around
\* ETH_PRICE that reaches beyond the band of DEX() on both sides
RegionPrices ==
    << R(1000, 1001), R(2499, 2500), R(2999, 3000), R(3999, 4000), R(7999, 8000),
       R(19999, 20000), One, R(20000, 19999), R(8000, 7999), R(4000, 3999),
       R(3000, 2999), R(2500, 2499), R(1001, 1000) >>

\* SWAP_FEE_BPS of src/replication.py
SwapFeeBps == {1, 5, 10, 30, 100}

\* get_non_arbitrage_region on the prices scanned: the first and the last of them for
\* which get_target_price returns None, prices[0] where there is none
get_non_arbitrage_region(d, prices) ==
    LET none == {i \in 1..Len(prices) : get_target_price(d, prices[i]) = None}
        first == IF none = {} THEN prices[1]
                 ELSE prices[CHOOSE i \in none : \A j \in none : i <= j]
        last == IF none = {} THEN prices[1]
                ELSE prices[CHOOSE i \in none : \A j \in none : j <= i]
    IN  [first |-> first, last |-> last]

\* np.random.uniform(price_low, price_high): the values it can draw, among the prices
\* scanned
uniform(price_low, price_high) ==
    {RegionPrices[i] : i \in {j \in 1..Len(RegionPrices) :
                                /\ RLe(price_low, RegionPrices[j])
                                /\ RLe(RegionPrices[j], price_high)}}

InitStart ==
    /\ dex = DEX(POOL_LIQUIDITY_USD)
    /\ call = CalledCL("DEX", POOL_LIQUIDITY_USD, None, None)
    /\ \E region \in {get_non_arbitrage_region(dex, RegionPrices)} :
         \E initial_price \in uniform(region.first, region.last) :
             example = [name |-> "get_price_paths", price_low |-> region.first,
                        price_high |-> region.last, initial_price |-> initial_price]

\* estimate_performance, lines 43-44: a fresh pool with the simulated fee
EstimatePerformance ==
    \E swap_fee_bps \in SwapFeeBps :
        /\ example.name = "get_price_paths"
        /\ call.op = "DEX"
        /\ dex' = set_fee_bps(DEX(POOL_LIQUIDITY_USD), swap_fee_bps)
        /\ call' = CalledCL("set_fee_bps", swap_fee_bps, None, None)
        /\ UNCHANGED example

\* maybe_arbitrage, line 282, on the first price of the path
FirstPrice ==
    /\ example.name = "get_price_paths"
    /\ call.op = "set_fee_bps"
    /\ call' = CalledCL("get_target_price", example.initial_price,
                        get_target_price(dex, example.initial_price), None)
    /\ UNCHANGED <<dex, example>>

NextStart == EstimatePerformance \/ FirstPrice

SpecStart == InitStart /\ [][NextStart]_vars

-----------------------------------------------------------------------------
(* src/revenue-and-dynamic-fee.py: estimate_performance, run once for each  *)
(* dynamic_fee_proportion that main passes, on the same prices; dex maps a  *)
(* proportion to the pool of its run, and the runs advance together.        *)

\* main, lines 127-129: the proportions passed to simulate_some_blocks
DynamicFeeProportions == {R(1, 10), R(1, 2), R(9, 10)}

\* the number of prices of a path (n // block_time in simulate_some_blocks)
PathLength == 3

\* the attributes assigned, with the fee taken by the proportion of the pool's fee
set_dynamic_fee_applied(d, dynamic_fee_proportion) ==
    [is_dynamic_fee |-> TRUE, dynamic_fee_proportion |-> dynamic_fee_proportion]
      @@ [d EXCEPT !.fee_factor =
                RAdd(One, RMul(dynamic_fee_proportion, RSub(d.fee_factor, One)))]

\* estimate_performance, lines 36-37: two attributes are added to the pool object
set_dynamic_fee(d, dynamic_fee_proportion) ==
    [is_dynamic_fee |-> TRUE, dynamic_fee_proportion |-> dynamic_fee_proportion] @@ d

\* estimate_performance, line 35: dex = DEX() in every run
InitDynamic ==
    /\ dex = [proportion \in DynamicFeeProportions |-> DEX(POOL_LIQUIDITY_USD)]
    /\ call = CalledCL("DEX", POOL_LIQUIDITY_USD, None, None)
    /\ example = [name |-> "revenue-and-dynamic-fee", at |-> "attributes",
                  prices |-> << >>, returned |-> None]

\* estimate_performance, lines 36-37
DynamicAttributes ==
    /\ example.name = "revenue-and-dynamic-fee"
    /\ example.at = "attributes"
    /\ dex' = [proportion \in DynamicFeeProportions |->
                  set_dynamic_fee(dex[proportion], proportion)]
    /\ call' = CalledCL("dynamic_fee_proportion", None, None, None)
    /\ example' = [example EXCEPT !.at = "basefee"]

\* estimate_performance, line 38
DynamicBasefee ==
    /\ example.name = "revenue-and-dynamic-fee"
    /\ example.at = "basefee"
    /\ dex' = [proportion \in DynamicFeeProportions |->
                  set_basefee_usd(dex[proportion], Zero)]
    /\ call' = CalledCL("set_basefee_usd", Zero, None, None)
    /\ example' = [example EXCEPT !.at = "loop"]

\* estimate_performance, lines 39-40: one pass of the loop, the same price in every run
DynamicTick ==
    /\ example.name = "revenue-and-dynamic-fee"
    /\ example.at = "loop"
    /\ Len(example.prices) < PathLength
    /\ \E cex_price \in UNION {CexPrices(dex[proportion]) :
                                   proportion \in DynamicFeeProportions} :
        /\ \A proportion \in DynamicFeeProportions : Exact(dex[proportion], cex_price)
        /\ \E r \in {[proportion \in DynamicFeeProportions |->
                         maybe_arbitrage(dex[proportion], cex_price)]} :
            /\ dex' = [proportion \in DynamicFeeProportions |-> r[proportion].dex]
            /\ call' = CalledCL("maybe_arbitrage", cex_price,
                                [proportion \in DynamicFeeProportions |->
                                    r[proportion].ret], None)
        /\ example' = [example EXCEPT !.prices = Append(@, cex_price)]

\* estimate_performance, line 41
DynamicReturn ==
    /\ example.name = "revenue-and-dynamic-fee"
    /\ example.at = "loop"
    /\ call' = CalledCL("estimate_performance", example.prices, None, None)
    /\ example' = [example EXCEPT
                      !.at = "returned",
                      !.returned = [proportion \in DynamicFeeProportions |->
                                       metrics(dex[proportion])]]
    /\ UNCHANGED dex

NextDynamic ==
    \/ DynamicAttributes
    \/ DynamicBasefee
    \/ DynamicTick
    \/ DynamicReturn

SpecDynamic == InitDynamic /\ [][NextDynamic]_vars

-----------------------------------------------------------------------------
(* Properties of the pool                                                  *)

Arbitraged == call.op = "maybe_arbitrage"

Traded == Arbitraged /\ call.ret = TRUE

\* C1: after any sequence of maybe_arbitrage calls with positive prices and direct swaps
\* with positive inputs on a fresh pool, reserve_x > 0 and reserve_y > 0, and price()
\* and liquidity() are strictly positive.
C1_ReservesPositive ==
    /\ RSign(dex.reserve_x) > 0
    /\ RSign(dex.reserve_y) > 0
    /\ RSign(price(dex)) > 0
    /\ RSign(liquidity(dex)) > 0

\* C1: a pool that a direct swap of X and then an arbitrage trade have moved
C1_Witness ==
    /\ Traded
    /\ dex.num_tx >= 2
    /\ RLt(One, dex.reserve_x)

\* C2: with preset_target_price unset, maybe_arbitrage(c) returns False for every c with
\* price()/fee_factor <= c <= price()*fee_factor, the two boundaries included; so a trade
\* occurs only for c strictly outside the band.
C2_NoArbitrageBand ==
    dex.preset_target_price = None =>
        \A c \in BandPrices(dex) :
            /\ RLe(RDiv(price(dex), dex.fee_factor), c)
            /\ RLe(c, RMul(price(dex), dex.fee_factor))
            /\ maybe_arbitrage(dex, c).ret = FALSE

\* C2: a call at the upper boundary of a band of positive width, on a pool without
\* basefee: the target is computed, the trade is empty, the call returns False
C2_Witness ==
    /\ Arbitraged
    /\ call.ret = FALSE
    /\ dex.fee_ppm > 0
    /\ dex.basefee_usd = Zero
    /\ call.arg = RMul(price(dex), dex.fee_factor)
    /\ call.target_price = price(dex)
    /\ call.sbp_profit = Zero

\* C3: get_target_price(price()) returns None for every pool, for every fee_ppm with
\* 0 <= fee_ppm < 1 000 000, fee_ppm = 0 (after set_fee_bps(0)) included.
C3_NoTradeAtPoolPrice == get_target_price(dex, price(dex)) = None

\* C4: when maybe_arbitrage(c) executes a trade (preset_target_price unset), the price
\* after it equals the target (c/fee_factor when c was above the pool price,
\* c*fee_factor when below), lies between the old price and c without passing c, and is
\* strictly closer to c than the old price.
C4_PriceReachesTarget ==
    [][(call'.op = "maybe_arbitrage" /\ call'.ret = TRUE
            /\ dex.preset_target_price = None) =>
        LET c == call'.arg
            old == price(dex)
            new == price(dex')
        IN  /\ new = call'.target_price
            /\ new = IF RLt(old, c) THEN RDiv(c, dex.fee_factor)
                     ELSE RMul(c, dex.fee_factor)
            /\ RLt(old, c) => RLt(old, new) /\ RLe(new, c)
            /\ RLt(c, old) => RLe(c, new) /\ RLt(new, old)
            /\ old # c
            /\ RLt(RAbs(RSub(c, new)), RAbs(RSub(c, old)))]_vars

\* C4: an executed trade towards a higher reference price, which the fee stops short of
C4_Witness ==
    /\ Traded
    /\ dex.fee_ppm > 0
    /\ RLt(price(dex), call.arg)
    /\ price(dex) = call.target_price

\* C5: a call whose band is cleared but whose sbp_profit = LVR - lp_fee - basefee_usd is
\* <= 0 does not execute, and every call of maybe_arbitrage that returns False leaves the
\* whole pool unchanged (reserves, position fees, volume, lp_fees, lvr, sbp_profits,
\* basefees, num_tx).
C5_NoTradeNoChange ==
    [][call'.op = "maybe_arbitrage" =>
        /\ (call'.sbp_profit # None /\ RLe(call'.sbp_profit, Zero)) => call'.ret = FALSE
        /\ call'.sbp_profit # None =>
              call'.sbp_profit = RSub(RSub(call'.lvr, call'.lp_fee), dex.basefee_usd)
        /\ call'.ret = FALSE => dex' = dex]_vars

\* C5: a call outside the band whose trade has a positive LVR that the fee and the
\* basefee use up
C5_Witness ==
    /\ Arbitraged
    /\ call.ret = FALSE
    /\ call.sbp_profit # None
    /\ RSign(call.lvr) > 0
    /\ call.target_price # price(dex)

\* C6: every executed arbitrage trade has LVR > lp_fee >= 0 (with basefee_usd >= 0), and
\* num_tx is incremented by maybe_arbitrage only where sbp_profit > 0.
C6_LvrExceedsFee ==
    [][(call'.op = "maybe_arbitrage"
            /\ (call'.ret = TRUE \/ dex'.num_tx # dex.num_tx)) =>
        /\ RSign(dex.basefee_usd) >= 0
        /\ RSign(call'.lp_fee) >= 0
        /\ RLt(call'.lp_fee, call'.lvr)
        /\ RSign(call'.lvr) > 0
        /\ RSign(call'.sbp_profit) > 0
        /\ dex'.num_tx = dex.num_tx + 1]_vars

\* C6: an executed trade that paid a positive LP fee and a positive basefee
C6_Witness ==
    /\ Traded
    /\ RSign(call.lp_fee) > 0
    /\ RSign(dex.basefee_usd) > 0
    /\ RLt(call.lp_fee, call.lvr)

\* C7: from one state to the next volume, lp_fees, lvr, basefees, num_tx and sbp_profits
\* never decrease, and sbp_profits grows only by the strictly positive profit of a trade.
C7_MetricsMonotone ==
    [][/\ RLe(dex.volume, dex'.volume)
       /\ RLe(dex.lp_fees, dex'.lp_fees)
       /\ RLe(dex.lvr, dex'.lvr)
       /\ RLe(dex.basefees, dex'.basefees)
       /\ dex.num_tx <= dex'.num_tx
       /\ RLe(dex.sbp_profits, dex'.sbp_profits)
       /\ dex'.sbp_profits # dex.sbp_profits =>
             /\ call'.op = "maybe_arbitrage"
             /\ RSign(call'.sbp_profit) > 0
             /\ dex'.sbp_profits = RAdd(dex.sbp_profits, call'.sbp_profit)]_vars

\* C7: a pool whose metrics have grown by an arbitrage trade and then by a swap of Y
C7_Witness ==
    /\ call.op = "swap_y_to_x"
    /\ RSign(dex.lvr) > 0
    /\ RSign(dex.sbp_profits) > 0
    /\ RLt(dex.lvr, dex.volume)
    /\ RSign(dex.lp_fees) > 0

\* C8: an executed maybe_arbitrage(cex_price) adds (delta_x, delta_y) to the reserves and
\* changes the metrics by exactly volume += |delta_y| + lp_fee, lp_fees += lp_fee,
\* lvr += LVR, sbp_profits += sbp_profit, basefees += basefee_usd, num_tx += 1, where
\* LVR = -(delta_x*cex_price + delta_y) and lp_fee is the fee on the asset that flows in,
\* valued at cex_price.
C8_MetricsUpdate ==
    [][(call'.op = "maybe_arbitrage" /\ call'.ret = TRUE) =>
        LET cex_price == call'.arg
            sqrt_target_price == sqrt(call'.target_price)
            delta_x == RSub(RDiv(liquidity(dex), sqrt_target_price), dex.reserve_x)
            delta_y == RSub(RMul(liquidity(dex), sqrt_target_price), dex.reserve_y)
            LVR == RNeg(RAdd(RMul(delta_x, cex_price), delta_y))
            fee_rate == RSub(dex.fee_factor, One)
            lp_fee == IF RSign(delta_x) > 0
                      THEN RMul(RMul(delta_x, fee_rate), cex_price)
                      ELSE RMul(delta_y, fee_rate)
            sbp_profit == RSub(RSub(LVR, lp_fee), dex.basefee_usd)
        IN  /\ dex'.reserve_x = RAdd(dex.reserve_x, delta_x)
            /\ dex'.reserve_y = RAdd(dex.reserve_y, delta_y)
            /\ dex'.volume = RAdd(dex.volume, RAdd(RAbs(delta_y), lp_fee))
            /\ dex'.lp_fees = RAdd(dex.lp_fees, lp_fee)
            /\ dex'.lvr = RAdd(dex.lvr, LVR)
            /\ dex'.sbp_profits = RAdd(dex.sbp_profits, sbp_profit)
            /\ dex'.basefees = RAdd(dex.basefees, dex.basefee_usd)
            /\ dex'.num_tx = dex.num_tx + 1
            /\ call'.lvr = LVR /\ call'.lp_fee = lp_fee
            /\ call'.sbp_profit = sbp_profit]_vars

\* C8: an executed trade that sold X to the pool (the fee is taken in X and valued at
\* cex_price) on a pool that had metrics before it
C8_Witness ==
    /\ Traded
    /\ dex.num_tx >= 2
    /\ dex.fee_ppm > 0
    /\ RLt(call.arg, price(dex))
    /\ RLt(call.lvr, dex.lvr)
    /\ RSign(dex.basefees) > 0

-----------------------------------------------------------------------------
(* Properties of example_3 and example_0                                   *)

\* C9: from the same pool, presenting two rising reference prices c1 then c2
\* (price() < c1 < c2) accumulates a total lvr that is less than or equal to the lvr of
\* presenting c2 alone.
C9_LvrPathDependence ==
    (example.name = "example_3" /\ example.pc = 3) =>
        /\ RLe(example.short_block_dex.lvr, example.long_block_dex.lvr)
        /\ example.short_block_dex.num_tx = 2 =>
              /\ example.long_block_dex.num_tx = 1
              /\ RLt(example.short_block_dex.lvr, example.long_block_dex.lvr)

\* C9: both presentations have run, with a fee; the one pool traded twice, the other
\* once, and the two trades lost the LPs less than the one
C9_Witness ==
    /\ example.name = "example_3"
    /\ example.pc = 3
    /\ example.short_block_dex.fee_ppm > 0
    /\ example.short_block_dex.num_tx = 2
    /\ example.long_block_dex.num_tx = 1
    /\ RLt(example.short_block_dex.lvr, example.long_block_dex.lvr)
    /\ price(example.short_block_dex) = price(example.long_block_dex)

Example0Done ==
    /\ example.name = "example_0"
    /\ example.dex1.num_tx = 1
    /\ example.done = example.parts

\* C10, as the specification states it: splitting one swap of input A into k > 1 equal
\* swaps of A/k (fee_ppm > 0) strictly increases the cumulative lp_fees, for swap_x_to_y
\* and for swap_y_to_x.
C10_SplitIncreasesFees ==
    (Example0Done /\ example.dex1.fee_ppm > 0) =>
        RLt(example.dex1.lp_fees, example.dex1a.lp_fees)

\* C10, as the code has it: splitting one swap of input A into k > 1 equal swaps of A/k
\* never increases the cumulative lp_fees. The pools end with the same reserves; for
\* swap_y_to_x the lp_fees are equal; for swap_x_to_y, whose fee is valued at the price
\* before each part, the split swaps collect strictly less when fee_ppm > 0 (and equally
\* nothing when fee_ppm = 0).
C10_SplitNeverGains ==
    Example0Done =>
        /\ example.parts > 1
        /\ example.dex1a.reserve_x = example.dex1.reserve_x
        /\ example.dex1a.reserve_y = example.dex1.reserve_y
        /\ example.dex1a.num_tx = example.parts
        /\ example.swap = "swap_y_to_x" =>
              example.dex1a.lp_fees = example.dex1.lp_fees
        /\ example.swap = "swap_x_to_y" =>
              IF example.dex1.fee_ppm > 0
              THEN RLt(example.dex1a.lp_fees, example.dex1.lp_fees)
              ELSE example.dex1a.lp_fees = example.dex1.lp_fees

\* C10: a swap of X with a fee, taken whole by the one pool and in three parts by the
\* other, which collected less
C10_Witness ==
    /\ Example0Done
    /\ example.swap = "swap_x_to_y"
    /\ example.dex1.fee_ppm > 0
    /\ example.parts = 3
    /\ example.dex1a.num_tx = 3
    /\ RLt(example.dex1a.lp_fees, example.dex1.lp_fees)

-----------------------------------------------------------------------------
(* Properties of the constructor, of the swaps' order and of the target     *)

OrderDone == example.name = "example_0 dex1 dex2" /\ example.pc = 4

\* C11, as the specification states it: with fee_ppm = 0, swap_x_to_y(a) then
\* swap_y_to_x(b) leaves the pool at the same price as swap_y_to_x(b) then
\* swap_x_to_y(a), for all positive a and b.
C11_SwapsCommute ==
    (OrderDone /\ example.dex1.fee_ppm = 0) => price(example.dex1) = price(example.dex2)

\* C11, as the code has it: for every fee level, fee_ppm = 0 included, both orders keep
\* the product reserve_x * reserve_y of the pool, and the two orders end at different
\* prices: swap_x_to_y(a) then swap_y_to_x(b) ends at a strictly higher price than
\* swap_y_to_x(b) then swap_x_to_y(a).
C11_SwapOrderMatters ==
    OrderDone =>
        /\ RMul(example.dex1.reserve_x, example.dex1.reserve_y) = One
        /\ RMul(example.dex2.reserve_x, example.dex2.reserve_y) = One
        /\ RLt(price(example.dex2), price(example.dex1))
        /\ example.dex1.num_tx = 2 /\ example.dex2.num_tx = 2

\* C11: both orders have run without a fee, and dex1 ends at the higher price
C11_Witness ==
    /\ OrderDone
    /\ example.dex1.fee_ppm = 0
    /\ example.amount_in_x = One
    /\ example.amount_in_y = One
    /\ RLt(price(example.dex2), price(example.dex1))

\* C12: for any fee level, k same-direction swaps of A/k each leave the pool with the
\* same reserve_x and reserve_y (hence the same price) and pay out the same total
\* output as one swap of A.
C12_SplitSameReserves ==
    Example0Done =>
        /\ example.dex1a.reserve_x = example.dex1.reserve_x
        /\ example.dex1a.reserve_y = example.dex1.reserve_y
        /\ price(example.dex1a) = price(example.dex1)
        /\ example.out1a = example.out1
        /\ example.out1 = IF example.swap = "swap_x_to_y"
                           THEN RSub(One, example.dex1.reserve_y)
                           ELSE RSub(One, example.dex1.reserve_x)

\* C12: a swap of Y with a fee, taken whole by the one pool and in two parts by the
\* other, with the same positive output
C12_Witness ==
    /\ Example0Done
    /\ example.swap = "swap_y_to_x"
    /\ example.dex1.fee_ppm > 0
    /\ example.parts = 2
    /\ RSign(example.out1) > 0
    /\ example.out1a = example.out1

\* C15: for a reference price c above the pool price, among the candidate targets t in
\* [price(), c] forced through preset_target_price, the sbp profit recorded by
\* maybe_arbitrage(c) is maximal at t = get_target_price(c) = c/fee_factor
\* (symmetrically at t = c*fee_factor for c below the pool price): no candidate records
\* more than the pool's own target, and where that target is profitable every other
\* candidate records strictly less.
C15_TargetMaximizesProfit ==
    example.name = "plot_profits_on_target_price" =>
        LET d == Configured(example.fee_bps, example.basefee_usd)
            own == get_target_price(d, example.cex_price)
            best == maybe_arbitrage(d, example.cex_price).dex.sbp_profits
        IN  /\ own = IF RLt(price(d), example.cex_price)
                     THEN RDiv(example.cex_price, d.fee_factor)
                     ELSE RMul(example.cex_price, d.fee_factor)
            /\ \A i \in 1..Len(example.profits) :
                 /\ RLe(example.profits[i], best)
                 /\ example.prices[i] = own => example.profits[i] = best
                 /\ (example.prices[i] # own /\ RSign(best) > 0) =>
                        RLt(example.profits[i], best)

\* C15: all candidates of a rising reference price have run with a fee of 75 %; the
\* pool's own target recorded a profit, and candidates below it and above it recorded
\* less
C15_Witness ==
    /\ example.name = "plot_profits_on_target_price"
    /\ example.fee_bps = 7500
    /\ Len(example.profits) = Len(example.prices)
    /\ \E i, j, k \in 1..Len(example.profits) :
         /\ i < j /\ j < k
         /\ example.prices[j] = RDiv(example.cex_price, R(4, 1))
         /\ RLt(example.profits[i], example.profits[j])
         /\ RLt(example.profits[k], example.profits[j])
         /\ RSign(example.profits[j]) > 0

\* C14: with basefee_usd = 0 and a fee > 0, maybe_arbitrage(c) executes a trade exactly
\* when c is strictly outside the band [price()/fee_factor, price()*fee_factor], and the
\* pool run this way agrees with the price-only model of test_probs_uniform on every
\* price path: a trade is counted on exactly the same ticks and the pool price is the
\* same after every tick.
C14_QuickModelAgrees ==
    (example.name = "replication" /\ example.tick > 0) =>
        LET f == example.full.fee_factor
            outside == \/ RLt(example.cex_price, RDiv(example.price_before, f))
                       \/ RLt(RMul(example.price_before, f), example.cex_price)
        IN  /\ example.ret = outside
            /\ example.n_tx = example.full.num_tx
            /\ example.pool_price = price(example.full)

\* C13: a pool constructed with total value V (DEX(V)) at reference price P starts with
\* reserve_y = V/2 and reserve_x = V/(2*P), so pools constructed with different V have
\* different reserves and liquidity, and the same price P.
C13_PoolValueConfigurable ==
    call.op = "DEX" =>
        /\ dex.reserve_y = Usd(call.arg \div 2)
        /\ dex.reserve_x = RDiv(Usd(call.arg \div 2), R(ETH_PRICE, ETH_PRICE))
        /\ price(dex) = R(ETH_PRICE, ETH_PRICE)

\* C16, as the specification states it: add_position(value, tick_low, tick_high) (alone,
\* or as the last step of rebalance or rebalance_above) followed immediately by
\* remove_position(p) with p the pool's current price and no accrued fees returns the
\* contributed value, for every range tick_low < tick_high that contains the current
\* price.
C16_RoundTrip ==
    [][(/\ call.op \in {"add_position", "rebalance", "rebalance_above"}
        /\ call.ret # "AssertionError"
        /\ dex.pos_tick_low < dex.pos_tick_high
        /\ RLe(to_price(dex.pos_tick_low), price(dex))
        /\ RLt(price(dex), to_price(dex.pos_tick_high))
        /\ dex.pos_fees_usd = Zero /\ dex.pos_fees_eth = Zero
        /\ call'.op = "remove_position"
        /\ call'.arg = price(dex))
       => call'.ret = call.liquidity_usd]_vars

\* C17: after rebalance(reference_price, width_in_ticks, additional_value), for any pool
\* price and any width_in_ticks, the new range contains the pool's current tick:
\* pos_tick_low <= to_tick(price()) < pos_tick_high.
C17_RebalanceContainsTick ==
    call.op = "rebalance" =>
        /\ dex.pos_tick_low <= to_tick(price(dex))
        /\ to_tick(price(dex)) < dex.pos_tick_high

\* C17: rebalance has returned after a price move below the initial tick, with a width
\* smaller than tick_spacing
C17_Witness ==
    /\ call.op = "rebalance"
    /\ call.ret # "AssertionError"
    /\ call.arg.width_in_ticks < dex.tick_spacing
    /\ dex.num_tx > 0
    /\ to_tick(price(dex)) < 0

\* C18, as the specification states it: after rebalance or rebalance_above with any
\* width_in_ticks >= tick_spacing, pos_tick_low < pos_tick_high and both pos_tick_low
\* and pos_tick_high are multiples of the pool's tick_spacing.
C18_BoundsWellFormed ==
    (/\ call.op \in {"rebalance", "rebalance_above"}
     /\ call.arg.width_in_ticks >= dex.tick_spacing) =>
        /\ dex.pos_tick_low < dex.pos_tick_high
        /\ dex.pos_tick_low % dex.tick_spacing = 0
        /\ dex.pos_tick_high % dex.tick_spacing = 0

\* C19, as the specification states it: in every state reached after add_position,
\* rebalance or rebalance_above returns normally, 0 <= pos_liquidity_share < 1; an
\* add_position whose computed liquidity share is >= 1 fails with an assertion error.
C19_ShareInUnitInterval ==
    call.op \in {"add_position", "rebalance", "rebalance_above"} =>
        /\ call.ret # "AssertionError" =>
              /\ RLe(Zero, dex.pos_liquidity_share)
              /\ RLt(dex.pos_liquidity_share, One)
        /\ RLe(One, dex.pos_liquidity_share) => call.ret = "AssertionError"

\* C20, as the code has it: on every executed arbitrage trade with an active position,
\* with share = get_fee_share(price before, price after), the position accrues
\* share * fee in the asset the fee was paid in (pos_fees_usd when the price moved up,
\* pos_fees_eth when it moved down), the other accrual is unchanged, and cumulative
\* lp_fees grows by the whole fee of the trade, valued in USD at the reference price.
C20_FeeAccrual ==
    [][(/\ call'.op = "maybe_arbitrage"
        /\ call'.ret
        /\ dex.pos_liquidity # Zero)
       => LET share == get_fee_share(dex, price(dex), price(dex'))
              fee_usd == RMul(RSub(dex'.reserve_y, dex.reserve_y),
                              RSub(dex.fee_factor, One))
              fee_eth == RMul(RSub(dex'.reserve_x, dex.reserve_x),
                              RSub(dex.fee_factor, One))
          IN  IF RLt(price(dex), price(dex'))
              THEN /\ dex'.pos_fees_usd = RAdd(dex.pos_fees_usd, RMul(share, fee_usd))
                   /\ dex'.pos_fees_eth = dex.pos_fees_eth
                   /\ dex'.lp_fees = RAdd(dex.lp_fees, fee_usd)
              ELSE /\ dex'.pos_fees_eth = RAdd(dex.pos_fees_eth, RMul(share, fee_eth))
                   /\ dex'.pos_fees_usd = dex.pos_fees_usd
                   /\ dex'.lp_fees = RAdd(dex.lp_fees, RMul(fee_eth, call'.arg))]_vars

\* C20, as the specification states it: the fee of an executed trade with an active
\* position is split, so that the part credited to cumulative lp_fees plus the part
\* credited to the position (share * fee, in the asset the fee was paid in) equals the
\* trade's fee.
C20_FeeSplit ==
    [][(/\ call'.op = "maybe_arbitrage"
        /\ call'.ret
        /\ dex.pos_liquidity # Zero)
       => LET share == get_fee_share(dex, price(dex), price(dex'))
              fee_usd == RMul(RSub(dex'.reserve_y, dex.reserve_y),
                              RSub(dex.fee_factor, One))
              fee_eth == RMul(RSub(dex'.reserve_x, dex.reserve_x),
                              RSub(dex.fee_factor, One))
              to_lp_fees == RSub(dex'.lp_fees, dex.lp_fees)
              to_pos_usd == RSub(dex'.pos_fees_usd, dex.pos_fees_usd)
              to_pos_eth == RSub(dex'.pos_fees_eth, dex.pos_fees_eth)
          IN  IF RLt(price(dex), price(dex'))
              THEN /\ to_pos_usd = RMul(share, fee_usd)
                   /\ to_pos_eth = Zero
                   /\ RAdd(to_lp_fees, to_pos_usd) = fee_usd
              ELSE /\ to_pos_eth = RMul(share, fee_eth)
                   /\ to_pos_usd = Zero
                   /\ RAdd(to_lp_fees, RMul(to_pos_eth, call'.arg))
                          = RMul(fee_eth, call'.arg)]_vars

\* C20: a trade has executed on a pool with a fee whose position, with a share strictly
\* between 0 and 1, has accrued fees in both assets, and cumulative lp_fees holds more
\* than the position's accruals
C20_Witness ==
    /\ call.op = "maybe_arbitrage"
    /\ call.ret
    /\ dex.fee_ppm > 0
    /\ RSign(dex.pos_liquidity_share) > 0
    /\ RLt(dex.pos_liquidity_share, One)
    /\ RSign(dex.pos_fees_usd) > 0
    /\ RSign(dex.pos_fees_eth) > 0
    /\ RLt(RAdd(dex.pos_fees_usd, RMul(dex.pos_fees_eth, call.arg)), dex.lp_fees)

\* C21, as the specification states it: get_fee_share does not depend on the direction
\* of the swap, get_fee_share(p, q) = get_fee_share(q, p) for all positive prices p and
\* q, so that a swap whose ticks only partly overlap the range gets the same fraction of
\* pos_liquidity_share in both directions.
C21_FeeShareSymmetric ==
    call.op = "get_fee_share" =>
        call.ret = get_fee_share(dex, call.arg.swap_price_end, call.arg.swap_price_start)

\* C22: a path of n prices run with block size b (b divides n) presents to the pool
\* exactly the last price of each block, the prices at indices b-1, 2b-1, ..., n-1 of
\* the path, each once and in increasing order (with b = 1 every price, in order); a
\* tick without a trade does not stop the run, and the path returns only after every
\* selected price has been presented.
C22_BlocksPresentLastPrice ==
    (/\ example.name = "simulate_some_blocks"
     /\ example.at \in {"estimate_performance", "estimate_mean_performance"}
     /\ (example.at = "estimate_mean_performance" => Len(example.all_metrics) > 0)) =>
        LET b == example.block_times[example.done + 1]
            sim == IF example.at = "estimate_performance" THEN example.sim
                   ELSE example.sim - 1
        IN  /\ Len(example.prices) = NumPrices \div b
            /\ Len(example.presented) <= NumPrices \div b
            /\ \A i \in 1..Len(example.presented) :
                 /\ example.presented[i].t = i * b - 1
                 /\ example.presented[i].sim = sim
            /\ example.at = "estimate_mean_performance" =>
                 Len(example.presented) = NumPrices \div b

\* C22: a path has returned that was run with blocks of more than one price, after a
\* tick without a trade and a later tick with a trade
C22_Witness ==
    /\ example.name = "simulate_some_blocks"
    /\ example.at = "estimate_mean_performance"
    /\ Len(example.all_metrics) > 0
    /\ example.block_times[example.done + 1] > 1
    /\ \E i, j \in 1..Len(example.presented) :
         /\ i < j
         /\ ~example.presented[i].ret
         /\ example.presented[j].ret

C24_StartsInsideBand ==
    call.op = "get_target_price" => call.ret = None

\* C25: liquidity is conserved by every operation: reserve_x * reserve_y, hence
\* liquidity(), has in every reachable state the value it had when the pool was
\* constructed; direct swaps, executed arbitrage trades, and add_position,
\* remove_position, rebalance and rebalance_above never change it.
C25_LiquidityConserved ==
    /\ RMul(dex.reserve_x, dex.reserve_y)
         = RMul(DEX(POOL_LIQUIDITY_USD).reserve_x, DEX(POOL_LIQUIDITY_USD).reserve_y)
    /\ liquidity(dex) = liquidity(DEX(POOL_LIQUIDITY_USD))

\* C25: a position has been withdrawn and put back by rebalance on a pool with a fee,
\* after two transactions that earned fees and moved the price
C25_Witness ==
    /\ call.op = "rebalance"
    /\ dex.num_tx = 2
    /\ dex.fee_ppm > 0
    /\ RSign(dex.lp_fees) > 0
    /\ price(dex) # price(DEX(POOL_LIQUIDITY_USD))
    /\ dex.pos_liquidity # Zero

\* C26: in a run that uses only maybe_arbitrage (no direct swaps), every reachable
\* state satisfies lvr = lp_fees + sbp_profits + basefees.
C26_ValueAccounting ==
    dex.lvr = RAdd(RAdd(dex.lp_fees, dex.sbp_profits), dex.basefees)

\* C26: trades have executed on a pool with a fee and a basefee, and each of lp_fees,
\* sbp_profits and basefees holds a part of lvr
C26_Witness ==
    /\ call.op = "maybe_arbitrage"
    /\ dex.num_tx > 1
    /\ RSign(dex.lp_fees) > 0
    /\ RSign(dex.sbp_profits) > 0
    /\ RSign(dex.basefees) > 0

\* C27: re-presenting a price is a no-op: after maybe_arbitrage(c) has been called,
\* whether or not it traded, an immediately following maybe_arbitrage(c) with the same
\* c returns False and changes no state.
C27_RepeatedPriceNoOp ==
    [][(/\ call.op = "maybe_arbitrage"
        /\ call'.op = "maybe_arbitrage"
        /\ call'.arg = call.arg)
       => (/\ call'.ret = FALSE
           /\ dex' = dex)]_vars

\* C27: on a pool with a fee and a basefee that has traded, the price whose target is
\* the pool's price (the one the last trade was made for) was presented and refused
C27_Witness ==
    /\ call.op = "maybe_arbitrage"
    /\ call.ret = FALSE
    /\ dex.num_tx > 0
    /\ dex.fee_ppm > 0
    /\ RSign(dex.basefee_usd) > 0
    /\ call.arg # price(dex)
    /\ call.target_price = price(dex)

\* C28: the two ways of computing a square-root price agree: for the ticks of every
\* position, odd ones included, to_sqrt_price(tick) * to_sqrt_price(tick) = to_price(tick),
\* so the bounds get_position_assets uses are the bounds add_position used.
C28_SqrtPriceSquared ==
    \A tick \in {dex.pos_tick_low, dex.pos_tick_high} :
        RMul(to_sqrt_price(tick), to_sqrt_price(tick)) = to_price(tick)

\* C29: get_fee_share never fails: for all positive swap prices and every position with
\* pos_tick_low <= pos_tick_high (the initial empty position 0/0 included),
\* total_ticks >= 1, 0 <= proportion_in_range <= 1 (so neither the division nor the
\* assertion raises), and the returned share lies in [0, pos_liquidity_share].
C29_FeeShareTotal ==
    (call.op = "get_fee_share" /\ dex.pos_tick_low <= dex.pos_tick_high) =>
        LET ticks == get_fee_share_ticks(dex, call.arg.swap_price_start,
                                         call.arg.swap_price_end)
        IN  /\ ticks.total_ticks >= 1
            /\ 0 <= ticks.ticks_in_range
            /\ ticks.ticks_in_range <= ticks.total_ticks
            /\ call.raised = "returned"
            /\ RLe(Zero, call.ret)
            /\ RLe(call.ret, dex.pos_liquidity_share)

=============================================================================
